---- MODULE Spec2Model ----
(***************************************************************************)
(* Verification model of the multi-provider summarization core of the      *)
(* websub browser extension: token store (storage.ts), Kimi authenticated  *)
(* request wrapper and transport (kimi.ts), Kimi/Qwen summarize flows      *)
(* (kimiSummarize.ts, qwenSummarize.ts), background orchestrator           *)
(* (background/index.ts) and the stream merge (kimi.ts / qwen.ts).         *)
(*                                                                         *)
(* Strings are sequences of one-character strings, so that trim, prefix    *)
(* and suffix tests are computed as the code computes them.  An optional   *)
(* string that is `undefined` is the empty sequence: every reader in the   *)
(* code tests it for truthiness only.                                      *)
(***************************************************************************)
EXTENDS Integers, Sequences, FiniteSets, TLC

VARIABLES
  kimi_tokens,   \* chrome.storage.local["kimi_tokens"]: Null or a KimiTokens record
  qwen_tokens,   \* chrome.storage.local["qwen_tokens"]: Null or a QwenTokens record
  now,           \* the wall clock read by new Date()
  lastOp,        \* the last Token Store operation and what it returned (observation)
  expected,      \* per provider: the credential the store contract says get returns
  driven,        \* the provider whose Token Store the operation sequence drives
  mergeCurrent,  \* stream merge: accumulated text offered to mergeStreamChunk
  mergeNext,     \* stream merge: incoming chunk offered to mergeStreamChunk
  mergeResult,   \* stream merge: what the last mergeStreamChunk returned
  mergeDone,     \* stream merge: whether mergeStreamChunk has been applied
  pc,            \* position of the summarization request being handled
  req,           \* the request: provider, file-first URL, path taken, stream endpoint index
  tokenState,    \* summarizeWithKimi / summarizeWithQwen: the local `tokenState`
  rwa,           \* the requestWithAuth invocation in progress (or the last one finished)
  obs,           \* what the request has done so far (observation)
  stream,        \* collectStreamContent: its locals while a response stream is read
  md,            \* a text offered to normalizeSummaryMarkdown and what came back
  tpl,           \* a Settings value offered to the prompt builder and what came back
  summary_history, \* chrome.storage.local["summary_history"]: the stored records
  stored_settings, \* chrome.storage.local["settings"]: Null or the stored value
  inflight,      \* per side panel: the handleMessage call serving its request
  sse,           \* collectStreamContent reading a response body piece by piece
  classified,    \* a stream chunk offered to shouldUseAsAssistantChunk and the answer
  echo           \* a text and a prompt offered to stripPromptEcho and what came back

storeVars == <<kimi_tokens, qwen_tokens, now>>
obsVars   == <<lastOp, expected, driven>>
mergeVars == <<mergeCurrent, mergeNext, mergeResult, mergeDone>>
reqVars   == <<pc, req, tokenState, rwa, obs>>
textVars  == <<stream, md, tpl>>
parseVars == <<sse, classified, echo>>
localVars == <<summary_history, stored_settings, inflight, parseVars>>

(***************************************************************************)
(* Bounds of the model.                                                    *)
(***************************************************************************)
MaxTokLen == 2   \* longest refresh value offered to the Token Store
MaxLen    == 3   \* longest accumulated text / chunk offered to the stream merge
MaxClock  == 1   \* clock ticks
MaxMdLines == 3  \* most lines in a text offered to the Markdown normalizer
MaxChunks == 3   \* most lines read from one event stream
MaxPolls == 2    \* most reads of the provider page one poll makes before its deadline
MaxPanels == 2   \* side panels (one per browser window) that can send messages
MaxRecorded == 1 \* most summaries recorded in the history in one behaviour

(***************************************************************************)
(* Strings.                                                                *)
(***************************************************************************)
Whitespace == {" ", "\t", "\n", "\r", "U+FEFF"}
TokenChars == {" ", "a"}
TextChars  == {"a", "b"}

StringsUpTo(chars, n) == UNION {[1..k -> chars] : k \in 0..n}

RECURSIVE trimStart(_)
trimStart(s) ==
  IF s # <<>> /\ Head(s) \in Whitespace THEN trimStart(Tail(s)) ELSE s

RECURSIVE trimEnd(_)
trimEnd(s) ==
  IF s # <<>> /\ s[Len(s)] \in Whitespace
  THEN trimEnd(SubSeq(s, 1, Len(s) - 1))
  ELSE s

\* String.prototype.trim
trim(s) == trimEnd(trimStart(s))

\* String.prototype.startsWith
startsWith(s, p) == Len(p) <= Len(s) /\ SubSeq(s, 1, Len(p)) = p

\* String.prototype.endsWith
endsWith(s, p) == Len(p) <= Len(s) /\ SubSeq(s, Len(s) - Len(p) + 1, Len(s)) = p

(***************************************************************************)
(* Error model (errors.ts).                                                *)
(***************************************************************************)
AppErrorCodes == {"HTTP", "AUTH", "TIMEOUT", "NETWORK", "VALIDATION", "RUNTIME", "UNKNOWN"}

AppError(code, status) == [code |-> code, status |-> status]

NoError == [code |-> "none", status |-> 0]

createHttpError(status) == AppError("HTTP", status)

\* a thrown value that is not an AppError (a SyntaxError of response.json(),
\* a TypeError)
RawException == [code |-> "raw", status |-> 0]

(***************************************************************************)
(* Token Store (storage.ts).  Every operation takes the raw stored value   *)
(* and `io`, whether the chrome.storage call succeeds (no lastError), and  *)
(* returns the new raw value, the error thrown and the value returned.     *)
(***************************************************************************)
Null == [null |-> TRUE]

\* storageSet / storageRemove / storageGet reject with RUNTIME on lastError
StorageError == AppError("RUNTIME", 0)

sanitizeKimiTokens(value) ==
  IF value = Null THEN Null
  ELSE LET refreshToken == trim(value.refreshToken)
       IN IF refreshToken = <<>> THEN Null
          ELSE [refreshToken |-> refreshToken,
                accessToken  |-> trim(value.accessToken),
                updatedAt    |-> value.updatedAt]

getKimiTokens(raw, io) ==
  IF io THEN [raw |-> raw, err |-> NoError, value |-> sanitizeKimiTokens(raw)]
  ELSE [raw |-> raw, err |-> StorageError, value |-> Null]

saveKimiTokens_NoGuard(raw, input, io, clock) ==
  LET nextState == [refreshToken |-> trim(input.refreshToken),
                     accessToken  |-> trim(input.accessToken),
                     updatedAt    |-> clock]
  IN IF io THEN [raw |-> nextState, err |-> NoError, value |-> nextState]
     ELSE [raw |-> raw, err |-> StorageError, value |-> Null]

saveKimiTokens(raw, input, io, clock) ==
  LET refreshToken == trim(input.refreshToken)
      nextState   == [refreshToken |-> refreshToken,
                       accessToken  |-> trim(input.accessToken),
                       updatedAt    |-> clock]
  IN IF refreshToken = <<>>
     THEN [raw |-> raw, err |-> AppError("AUTH", 0), value |-> Null]
     ELSE IF io
          THEN [raw |-> nextState, err |-> NoError, value |-> nextState]
          ELSE [raw |-> raw, err |-> StorageError, value |-> Null]

clearKimiTokens_Keep(raw, io) ==
  [raw |-> raw, err |-> NoError, value |-> Null]

clearKimiTokens(raw, io) ==
  IF io THEN [raw |-> Null, err |-> NoError, value |-> Null]
  ELSE [raw |-> raw, err |-> StorageError, value |-> Null]

getKimiAuthStatus(raw, io) ==
  LET got == getKimiTokens(raw, io)
  IN IF got.err # NoError THEN [raw |-> raw, err |-> got.err, value |-> Null]
     ELSE IF got.value = Null
          THEN [raw |-> raw, err |-> NoError,
                value |-> [connected |-> FALSE, updatedAt |-> Null]]
          ELSE [raw |-> raw, err |-> NoError,
                value |-> [connected |-> Len(trim(got.value.refreshToken)) > 0,
                           updatedAt |-> got.value.updatedAt]]

sanitizeQwenTokens(value) ==
  IF value = Null THEN Null
  ELSE LET token == trim(value.token)
       IN IF token = <<>> THEN Null
          ELSE [token     |-> token,
                updatedAt |-> value.updatedAt,
                account   |-> trim(value.account)]

getQwenTokens(raw, io) ==
  IF io THEN [raw |-> raw, err |-> NoError, value |-> sanitizeQwenTokens(raw)]
  ELSE [raw |-> raw, err |-> StorageError, value |-> Null]

saveQwenTokens(raw, input, io, clock) ==
  LET token      == trim(input.token)
      nextState == [token     |-> token,
                     account   |-> trim(input.account),
                     updatedAt |-> clock]
  IN IF token = <<>>
     THEN [raw |-> raw, err |-> AppError("AUTH", 0), value |-> Null]
     ELSE IF io
          THEN [raw |-> nextState, err |-> NoError, value |-> nextState]
          ELSE [raw |-> raw, err |-> StorageError, value |-> Null]

clearQwenTokens(raw, io) ==
  IF io THEN [raw |-> Null, err |-> NoError, value |-> Null]
  ELSE [raw |-> raw, err |-> StorageError, value |-> Null]

getQwenAuthStatus(raw, io) ==
  LET got == getQwenTokens(raw, io)
  IN IF got.err # NoError THEN [raw |-> raw, err |-> got.err, value |-> Null]
     ELSE IF got.value = Null
          THEN [raw |-> raw, err |-> NoError,
                value |-> [connected |-> FALSE, updatedAt |-> Null]]
          ELSE [raw |-> raw, err |-> NoError,
                value |-> [connected |-> Len(trim(got.value.token)) > 0,
                           updatedAt |-> got.value.updatedAt]]

(***************************************************************************)
(* Summary history (storage.ts): the log kept under "summary_history".     *)
(***************************************************************************)
MAX_HISTORY_RECORDS == 10

\* Array.prototype.slice(0, n)
slice(items, n) == SubSeq(items, 1, IF Len(items) < n THEN Len(items) ELSE n)

\* normalizeSummaryRecord: null for a value that is not a record
normalizeSummaryRecord(value) == IF value = Null THEN Null ELSE value

\* history.map(normalizeSummaryRecord).filter(item => item !== null)
RECURSIVE normalizeRecords(_)
normalizeRecords(items) ==
  IF items = <<>> THEN <<>>
  ELSE IF normalizeSummaryRecord(Head(items)) = Null THEN normalizeRecords(Tail(items))
  ELSE <<normalizeSummaryRecord(Head(items))>> \o normalizeRecords(Tail(items))

getSummaryHistory(raw, io) ==
  IF io THEN [raw |-> raw, err |-> NoError,
              value |-> slice(normalizeRecords(raw), MAX_HISTORY_RECORDS)]
  ELSE [raw |-> raw, err |-> StorageError, value |-> <<>>]

addSummaryRecord_Append(raw, record, ioGet, ioSet) ==
  LET current == getSummaryHistory(raw, ioGet)
      next == slice(current.value \o <<record>>, MAX_HISTORY_RECORDS)
  IN IF current.err # NoError THEN [raw |-> raw, err |-> current.err]
     ELSE IF ioSet THEN [raw |-> next, err |-> NoError]
     ELSE [raw |-> raw, err |-> StorageError]

addSummaryRecord(raw, record, ioGet, ioSet) ==
  LET current == getSummaryHistory(raw, ioGet)
      next == slice(<<record>> \o current.value, MAX_HISTORY_RECORDS)
  IN IF current.err # NoError THEN [raw |-> raw, err |-> current.err]
     ELSE IF ioSet THEN [raw |-> next, err |-> NoError]
     ELSE [raw |-> raw, err |-> StorageError]

(***************************************************************************)
(* Stream merge (kimi.ts, identical in qwen.ts).                           *)
(***************************************************************************)
Min(a, b) == IF a <= b THEN a ELSE b

\* current.slice(-len) === next.slice(0, len)
overlapAt(current, next, len) ==
  SubSeq(current, Len(current) - len + 1, Len(current)) = SubSeq(next, 1, len)

RECURSIVE overlapLoop(_, _, _)
overlapLoop(current, next, len) ==
  IF len <= 0 THEN 0
  ELSE IF overlapAt(current, next, len) THEN len
       ELSE overlapLoop(current, next, len - 1)

findOverlapSuffixPrefix_SkipMax(current, next) ==
  overlapLoop(current, next, Min(Len(current), Len(next)) - 1)

findOverlapSuffixPrefix(current, next) ==
  overlapLoop(current, next, Min(Len(current), Len(next)))

mergeStreamChunk_Concat(current, next) == current \o next

mergeStreamChunk(current, next) ==
  IF next = <<>> THEN current
  ELSE IF current = <<>> THEN next
  ELSE IF next = current THEN current
  ELSE IF startsWith(next, current) THEN next
  ELSE IF startsWith(current, next) THEN current
  ELSE LET overlap == findOverlapSuffixPrefix(current, next)
       IN IF overlap > 0
          THEN current \o SubSeq(next, overlap + 1, Len(next))
          ELSE current \o next

(***************************************************************************)
(* Token Store operations, one action per exported function.               *)
(***************************************************************************)
TokenInputs == StringsUpTo(TokenChars, MaxTokLen)

\* optional second field offered with a credential (accessToken / account)
SecondaryInputs == {<<>>, <<" ">>, <<"a", " ">>}

NoOp == [op |-> "none", provider |-> "none", input |-> <<>>, hadStored |-> FALSE,
         changed |-> FALSE, err |-> NoError, value |-> Null]

NothingExpected == [cred |-> Null, clearedAfterSave |-> FALSE]

StoreSaveKimi(input, io) ==
  LET r == saveKimiTokens(kimi_tokens, input, io, now)
  IN /\ kimi_tokens' = r.raw
     /\ lastOp' = [op |-> "save", provider |-> "kimi_web", input |-> input.refreshToken,
                   hadStored |-> kimi_tokens # Null, changed |-> r.raw # kimi_tokens,
                   err |-> r.err, value |-> Null]
     /\ expected' = IF r.err = NoError
                    THEN [expected EXCEPT !.kimi_web =
                            [cred |-> [refreshToken |-> trim(input.refreshToken),
                                       accessToken  |-> trim(input.accessToken),
                                       updatedAt    |-> now],
                             clearedAfterSave |-> FALSE]]
                    ELSE expected
     /\ UNCHANGED <<qwen_tokens, now, driven>>

StoreSaveQwen(input, io) ==
  LET r == saveQwenTokens(qwen_tokens, input, io, now)
  IN /\ qwen_tokens' = r.raw
     /\ lastOp' = [op |-> "save", provider |-> "qwen_web", input |-> input.token,
                   hadStored |-> qwen_tokens # Null, changed |-> r.raw # qwen_tokens,
                   err |-> r.err, value |-> Null]
     /\ expected' = IF r.err = NoError
                    THEN [expected EXCEPT !.qwen_web =
                            [cred |-> [token     |-> trim(input.token),
                                       account   |-> trim(input.account),
                                       updatedAt |-> now],
                             clearedAfterSave |-> FALSE]]
                    ELSE expected
     /\ UNCHANGED <<kimi_tokens, now, driven>>

StoreClearKimi(io) ==
  LET r == clearKimiTokens(kimi_tokens, io)
  IN /\ kimi_tokens' = r.raw
     /\ lastOp' = [op |-> "clear", provider |-> "kimi_web", input |-> <<>>,
                   hadStored |-> kimi_tokens # Null, changed |-> r.raw # kimi_tokens,
                   err |-> r.err, value |-> Null]
     /\ expected' = IF r.err = NoError
                    THEN [expected EXCEPT !.kimi_web =
                            [cred |-> Null, clearedAfterSave |-> @.cred # Null]]
                    ELSE expected
     /\ UNCHANGED <<qwen_tokens, now, driven>>

StoreClearQwen(io) ==
  LET r == clearQwenTokens(qwen_tokens, io)
  IN /\ qwen_tokens' = r.raw
     /\ lastOp' = [op |-> "clear", provider |-> "qwen_web", input |-> <<>>,
                   hadStored |-> qwen_tokens # Null, changed |-> r.raw # qwen_tokens,
                   err |-> r.err, value |-> Null]
     /\ expected' = IF r.err = NoError
                    THEN [expected EXCEPT !.qwen_web =
                            [cred |-> Null, clearedAfterSave |-> @.cred # Null]]
                    ELSE expected
     /\ UNCHANGED <<kimi_tokens, now, driven>>

StoreGetKimi(io) ==
  LET r == getKimiTokens(kimi_tokens, io)
  IN /\ lastOp' = [op |-> "get", provider |-> "kimi_web", input |-> <<>>,
                   hadStored |-> kimi_tokens # Null, changed |-> FALSE,
                   err |-> r.err, value |-> r.value]
     /\ UNCHANGED <<kimi_tokens, qwen_tokens, now, expected, driven>>

StoreGetQwen(io) ==
  LET r == getQwenTokens(qwen_tokens, io)
  IN /\ lastOp' = [op |-> "get", provider |-> "qwen_web", input |-> <<>>,
                   hadStored |-> qwen_tokens # Null, changed |-> FALSE,
                   err |-> r.err, value |-> r.value]
     /\ UNCHANGED <<kimi_tokens, qwen_tokens, now, expected, driven>>

StoreStatusKimi(io) ==
  LET r == getKimiAuthStatus(kimi_tokens, io)
  IN /\ lastOp' = [op |-> "status", provider |-> "kimi_web", input |-> <<>>,
                   hadStored |-> kimi_tokens # Null, changed |-> FALSE,
                   err |-> r.err, value |-> r.value]
     /\ UNCHANGED <<kimi_tokens, qwen_tokens, now, expected, driven>>

StoreStatusQwen(io) ==
  LET r == getQwenAuthStatus(qwen_tokens, io)
  IN /\ lastOp' = [op |-> "status", provider |-> "qwen_web", input |-> <<>>,
                   hadStored |-> qwen_tokens # Null, changed |-> FALSE,
                   err |-> r.err, value |-> r.value]
     /\ UNCHANGED <<kimi_tokens, qwen_tokens, now, expected, driven>>

\* time passes between operations
Tick ==
  /\ now < MaxClock
  /\ now' = now + 1
  /\ UNCHANGED <<kimi_tokens, qwen_tokens, lastOp, expected, driven>>

(***************************************************************************)
(* Network: what a call through fetchWithTimeout yields, and the fields    *)
(* the code reads from a response body.                                    *)
(***************************************************************************)
AuthStatuses == {401, 403}
Statuses == {200, 401, 403, 404, 500}

\* Response.ok
responseOk(status) == status >= 200 /\ status <= 299

\* a Response with a status, or a thrown TIMEOUT (abort) / NETWORK error
FetchResults ==
  [thrown : {"none"}, status : Statuses] \cup [thrown : {"TIMEOUT", "NETWORK"}, status : {0}]

\* getStringField of the token-refresh response: trimmed, empty when absent
RefreshPayloads == [accessToken : {<<>>, <<"a">>, <<"b">>}, refreshToken : {<<>>, <<"s">>}]

\* what readTabRefreshToken finds in the Kimi page's localStorage
KimiTabTokens == [refreshToken : {<<>>, <<"r">>}, accessToken : {<<>>, <<"a">>}]

\* what readTabToken finds in the Qwen page's localStorage
QwenTabTokens == [token : {<<>>, <<"q">>}]

\* the account (email / name) the Qwen auth check reports
QwenAccounts == {<<>>, <<"m">>}

\* a parsed body: the field the step needs is present ("good"), absent or
\* empty ("bad"), the response has no body at all ("nobody"), or the payload
\* has the unauthorized shape ("unauthorized", detected by the Qwen transport)
Bodies == {"good", "bad", "nobody"}
QwenBodies == {"good", "bad", "unauthorized"}

(***************************************************************************)
(* Kimi transport (kimi.ts).                                               *)
(***************************************************************************)
ensureAuthError(status) == AppError("AUTH", status)

isAuthLikeError(error) ==
  error.code = "AUTH" \/ error.status = 401 \/ error.status = 403

\* the result of one refreshAccessToken call: whether the refresh endpoint
\* was called, the error thrown, the pair returned
refreshAccessToken(refreshToken, fetched, payload) ==
  LET safeRefreshToken == trim(refreshToken)
      nextRefreshToken == IF payload.refreshToken # <<>>
                          THEN payload.refreshToken
                          ELSE safeRefreshToken
  IN IF safeRefreshToken = <<>>
     THEN [called |-> FALSE, err |-> ensureAuthError(401), value |-> Null]
     ELSE IF fetched.thrown # "none"
     THEN [called |-> TRUE, err |-> AppError(fetched.thrown, 0), value |-> Null]
     ELSE IF fetched.status \in AuthStatuses
     THEN [called |-> TRUE, err |-> ensureAuthError(fetched.status), value |-> Null]
     ELSE IF ~responseOk(fetched.status)
     THEN [called |-> TRUE, err |-> createHttpError(fetched.status), value |-> Null]
     ELSE IF payload.accessToken = <<>>
     THEN [called |-> TRUE, err |-> AppError("AUTH", 0), value |-> Null]
     ELSE [called |-> TRUE, err |-> NoError,
           value |-> [accessToken |-> payload.accessToken,
                      refreshToken |-> nextRefreshToken]]

\* summarizeWithKimi's onTokens callback: persists the rotated pair
onTokens_NoSave(raw, nextTokens, io, clock) ==
  [raw |-> raw, err |-> NoError, value |-> nextTokens]

onTokens(raw, nextTokens, io, clock) ==
  saveKimiTokens(raw, nextTokens, io, clock)

\* summarizeWithKimi's onAuthInvalid callback
onAuthInvalid(raw, io) == clearKimiTokens(raw, io)

\* requestWithAuth, after the response of upstream attempt `attempt`:
\* return it, refresh and retry, or invalidate and give up
afterResponse_RetryAgain(attempt, status) ==
  IF status \notin AuthStatuses THEN "done" ELSE "refresh"

afterResponse(attempt, status) ==
  IF status \notin AuthStatuses THEN "done"
  ELSE IF attempt = 1 THEN "refresh"
  ELSE "authInvalid"

Pending == [code |-> "pending", status |-> 0]

RwaIdle ==
  [phase |-> "none", currentTokens |-> Null, cachedOnEntry |-> FALSE,
   upstreamCalls |-> 0, refreshCalls |-> 0, refreshOk |-> 0, statuses |-> <<>>,
   authInvalidCalls |-> 0, authInvalidFailed |-> FALSE,
   persistFailed |-> FALSE, pendingErr |-> NoError,
   err |-> NoError, status |-> 0]

\* what a connectInteractive call did: what the poll returned, whether a
\* credential was observed, the store before the call, the error thrown and
\* the status returned
ConnectIdle ==
  [called |-> FALSE, tabOk |-> FALSE, observed |-> FALSE, polled |-> <<>>,
   saveOk |-> FALSE, statusOk |-> FALSE,
   before |-> Null, err |-> NoError, connected |-> FALSE]

\* what summarizePage did: whether it was called, the status of the provider's response, the kind of
\* message of the error thrown, and the stored credentials before the request
RestIdle ==
  [invoked |-> FALSE, status |-> 0, message |-> "none", stored |-> <<Null, Null>>]

\* what an ensureCredential call did: whether the store could be read and
\* written, the tab it opened, what the poll found, the attempt to close the
\* tab, the store before the call, the error thrown and the credential
\* returned
EnsureIdle ==
  [called |-> FALSE, readOk |-> TRUE, tabOpened |-> FALSE,
   tabActive |-> FALSE, found |-> FALSE, polled |-> <<>>, saveOk |-> TRUE,
   closeTried |-> FALSE, closeOk |-> TRUE,
   before |-> Null, err |-> NoError, value |-> Null]

\* what an addSummaryRecord call did: the record offered, the stored history
\* before the call and the error thrown
HistoryIdle == [called |-> FALSE, record |-> Null, before |-> <<>>, err |-> NoError]

\* what a call of the REST transport did: the operation, its input, whether
\* a request was sent, what fetch yielded, the body of the response, the error thrown
RestCallIdle ==
  [op |-> "none", input |-> Null, sent |-> FALSE,
   fetched |-> [thrown |-> "none", status |-> 0], body |-> "none", err |-> NoError]

\* what the last getSettings / saveSettings call returned
SettingsOpIdle == [op |-> "none", value |-> Null, err |-> NoError]

ObsIdle ==
  [fileErr |-> NoError, textRuns |-> 0, textOutcome |-> Pending,
   kimiResult |-> Pending, raised |-> NoError, delivered |-> Pending,
   invalidated |-> FALSE, hadCred |-> FALSE,
   sendLog |-> <<>>, sendTried |-> 0, sendErr |-> NoError,
   connect |-> ConnectIdle, rest |-> RestIdle, ensure |-> EnsureIdle,
   history |-> HistoryIdle, settingsOp |-> SettingsOpIdle,
   restCall |-> RestCallIdle]

KimiSteps == {"upload", "parse", "createChat", "send"}

\* the `tokens` argument of the requestWithAuth call of a transport step:
\* uploadFile, parseProcess and createChat are handed summarizeWithKimi's
\* tokenState as it is when they are called and make one call;
\* sendMessageStream hands input.tokens, the value it was called with, to the
\* call of every candidate path
requestTokens_TokenState(step, inputTokens, state) == state

requestTokens(step, inputTokens, state) ==
  IF step = "send" THEN inputTokens ELSE state

\* requestWithAuth entry: copy the tokens, refresh first when no access token
RequestWithAuthBegin ==
  /\ req.provider = "kimi_web"
  /\ pc \in KimiSteps
  /\ rwa.phase = "none"
  /\ LET tokens == requestTokens(pc, req.inputTokens, tokenState)
     IN rwa' = [RwaIdle EXCEPT
                  !.phase = IF tokens.accessToken = <<>> THEN "refresh" ELSE "execute",
                  !.currentTokens = tokens,
                  !.cachedOnEntry = tokens.accessToken # <<>>]
  /\ UNCHANGED <<pc, req, tokenState, obs, kimi_tokens, qwen_tokens, now>>

\* refreshOnce, first half: the call to the token-refresh endpoint answers
RequestWithAuthRefresh(fetched, payload) ==
  /\ rwa.phase = "refresh"
  /\ LET r == refreshAccessToken(rwa.currentTokens.refreshToken, fetched, payload)
         calls == rwa.refreshCalls + (IF r.called THEN 1 ELSE 0)
     IN rwa' =
          IF r.err = NoError
          THEN [rwa EXCEPT !.refreshCalls = calls,
                           !.refreshOk = @ + 1,
                           !.currentTokens = [refreshToken |-> r.value.refreshToken,
                                              accessToken  |-> r.value.accessToken,
                                              updatedAt    |-> now],
                           !.phase = "persist"]
          ELSE IF isAuthLikeError(r.err)
          THEN [rwa EXCEPT !.refreshCalls = calls,
                           !.pendingErr = ensureAuthError(401),
                           !.phase = "authInvalid"]
          ELSE [rwa EXCEPT !.refreshCalls = calls, !.err = r.err, !.phase = "done"]
  /\ UNCHANGED <<pc, req, tokenState, obs, kimi_tokens, qwen_tokens, now>>

\* refreshOnce, second half: await input.onTokens(currentTokens)
RequestWithAuthPersist(io) ==
  /\ rwa.phase = "persist"
  /\ LET r == onTokens(kimi_tokens, rwa.currentTokens, io, now)
     IN /\ tokenState' = rwa.currentTokens
        /\ kimi_tokens' = r.raw
        /\ obs' = [obs EXCEPT !.hadCred = @ \/ r.raw # Null]
        /\ rwa' =
             IF r.err = NoError
             THEN [rwa EXCEPT !.phase = "execute"]
             ELSE IF isAuthLikeError(r.err)
             THEN [rwa EXCEPT !.persistFailed = TRUE,
                              !.pendingErr = ensureAuthError(401),
                              !.phase = "authInvalid"]
             ELSE [rwa EXCEPT !.persistFailed = TRUE, !.err = r.err, !.phase = "done"]
  /\ UNCHANGED <<pc, req, qwen_tokens, now>>

\* execute: the upstream call to the requested path answers
RequestWithAuthExecute(fetched) ==
  /\ rwa.phase = "execute"
  /\ LET attempt == rwa.upstreamCalls + 1
     IN rwa' =
          IF fetched.thrown # "none"
          THEN [rwa EXCEPT !.upstreamCalls = attempt,
                           !.err = AppError(fetched.thrown, 0),
                           !.phase = "done"]
          ELSE LET nextPhase == afterResponse(attempt, fetched.status)
               IN [rwa EXCEPT !.upstreamCalls = attempt,
                              !.statuses = Append(@, fetched.status),
                              !.phase = nextPhase,
                              !.status = IF nextPhase = "done" THEN fetched.status ELSE 0,
                              !.pendingErr = IF nextPhase = "authInvalid"
                                             THEN ensureAuthError(fetched.status)
                                             ELSE NoError]
  /\ UNCHANGED <<pc, req, tokenState, obs, kimi_tokens, qwen_tokens, now>>

\* await input.onAuthInvalid(), then throw the AuthExpired error
RequestWithAuthInvalidate(io) ==
  /\ rwa.phase = "authInvalid"
  /\ LET r == onAuthInvalid(kimi_tokens, io)
     IN /\ kimi_tokens' = r.raw
        /\ obs' = [obs EXCEPT !.invalidated = @ \/ r.err = NoError]
        /\ rwa' = [rwa EXCEPT !.authInvalidCalls = @ + 1,
                              !.authInvalidFailed = r.err # NoError,
                              !.err = IF r.err = NoError THEN rwa.pendingErr ELSE r.err,
                              !.phase = "done"]
  /\ UNCHANGED <<pc, req, tokenState, qwen_tokens, now>>

(***************************************************************************)
(* Kimi summarize flow (kimiSummarize.ts) and the background orchestrator  *)
(* (background/index.ts).                                                  *)
(***************************************************************************)
StreamEndpoints == 2

isAuthError_Always(error) == TRUE

isAuthError_Never(error) == FALSE

\* kimiSummarize.ts isAuthError
isAuthError(error) == error.code = "AUTH"

isAuthAppError_Always(error) == TRUE

\* summarizeActiveTab's catch: error instanceof AppError && error.code === "AUTH"
isAuthAppError(error) == error.code = "AUTH"

kimiStepOutcome_SkipFailures(step, err, status, body, endpointIdx) ==
  LET tryNext == IF endpointIdx < StreamEndpoints
                 THEN [t |-> "retry"]
                 ELSE [t |-> "throw", err |-> AppError("RUNTIME", 0)]
  IN IF err # NoError THEN [t |-> "throw", err |-> err]
     ELSE IF step = "send"
     THEN IF ~responseOk(status) THEN tryNext
          ELSE IF body = "nobody" THEN [t |-> "throw", err |-> AppError("RUNTIME", 0)]
          ELSE IF body = "good" THEN [t |-> "return"]
          ELSE tryNext
     ELSE IF ~responseOk(status) THEN [t |-> "throw", err |-> createHttpError(status)]
     ELSE IF step \in {"upload", "createChat"} /\ body # "good"
     THEN [t |-> "throw", err |-> AppError("RUNTIME", 0)]
     ELSE [t |-> "goto",
           pc |-> CASE step = "upload" -> "parse"
                    [] step = "parse" -> "createChat"
                    [] step = "createChat" -> "send"]

\* what uploadFile / parseProcess / createChat / sendMessageStream do with the
\* outcome of their requestWithAuth call: throw, go on to the next step, try
\* the next stream endpoint, or return the summary
kimiStepOutcome(step, err, status, body, endpointIdx) ==
  LET tryNext == IF endpointIdx < StreamEndpoints
                 THEN [t |-> "retry"]
                 ELSE [t |-> "throw", err |-> AppError("RUNTIME", 0)]
  IN IF err # NoError THEN [t |-> "throw", err |-> err]
     ELSE IF step = "send"
     THEN IF status = 404 THEN tryNext
          ELSE IF ~responseOk(status) THEN [t |-> "throw", err |-> createHttpError(status)]
          ELSE IF body = "nobody" THEN [t |-> "throw", err |-> AppError("RUNTIME", 0)]
          ELSE IF body = "good" THEN [t |-> "return"]
          ELSE tryNext
     ELSE IF ~responseOk(status) THEN [t |-> "throw", err |-> createHttpError(status)]
     ELSE IF step \in {"upload", "createChat"} /\ body # "good"
     THEN [t |-> "throw", err |-> AppError("RUNTIME", 0)]
     ELSE [t |-> "goto",
           pc |-> CASE step = "upload" -> "parse"
                    [] step = "parse" -> "createChat"
                    [] step = "createChat" -> "send"]

ReqIdle == [provider |-> "none", fileFirst |-> FALSE, path |-> "none",
            endpointIdx |-> 0, account |-> <<>>, model |-> <<>>,
            inputTokens |-> Null]

\* kimi.ts KIMI_MODEL_NAME, returned by getKimiDisplayModel
KIMI_MODEL_NAME == <<"kimi-web">>

summaryRecordOf_SettingsModel(provider, model) ==
  [provider |-> provider, model |-> model]

\* the provider tag and the model label of the record summarizeActiveTab
\* builds: `model` is settings.model, replaced by getKimiDisplayModel() in
\* the kimi_web branch
summaryRecordOf(provider, model) ==
  [provider |-> provider,
   model |-> IF provider = "kimi_web" THEN KIMI_MODEL_NAME ELSE model]

\* a SUMMARIZE_ACTIVE_TAB message with provider kimi_web arrives (its
\* settings.model is a model name left from the key-based provider);
\* fileFirst is shouldPreferFileMode(pageContent.url)
StartSummarize(fileFirst) ==
  /\ pc = "idle"
  /\ Len(summary_history) < MaxRecorded
  /\ pc' = "prepare"
  /\ req' = [ReqIdle EXCEPT !.provider = "kimi_web", !.fileFirst = fileFirst,
                            !.model = <<"m">>]
  /\ tokenState' = Null
  /\ rwa' = RwaIdle
  /\ obs' = [ObsIdle EXCEPT !.hadCred = sanitizeKimiTokens(kimi_tokens) # Null,
                            !.history.before = summary_history]
  /\ UNCHANGED <<kimi_tokens, qwen_tokens, now>>

\* summarizeActiveTab up to the provider branch: getActiveTab, the restricted
\* URL check, extractPageContent and the minimum text length
Prepare(result) ==
  /\ pc = "prepare"
  /\ IF result = "ok"
     THEN pc' = (IF req.provider = "openai" THEN "rest" ELSE "ensure") /\ obs' = obs
     ELSE /\ pc' = "delivered"
          /\ obs' = [obs EXCEPT !.raised = AppError(result, 0),
                                !.delivered = AppError(result, 0)]
  /\ UNCHANGED <<req, tokenState, rwa, kimi_tokens, qwen_tokens, now>>

\* readTabRefreshToken / readTabToken rejected (the page was not ready)
ReadFailed == [failed |-> TRUE]

\* the reads one poll makes before its deadline, in order
KimiTabReads == UNION {[1..n -> KimiTabTokens \cup {ReadFailed}] : n \in 1..MaxPolls}
QwenTabReads == UNION {[1..n -> QwenTabTokens \cup {ReadFailed}] : n \in 1..MaxPolls}

\* a read that found a refresh token
kimiReadFound(read) == read # ReadFailed /\ read.refreshToken # <<>>

\* a read that found a token
qwenReadFound(read) == read # ReadFailed /\ read.token # <<>>

pollRefreshToken_LastRead(reads) ==
  IF kimiReadFound(reads[Len(reads)]) THEN reads[Len(reads)]
  ELSE [refreshToken |-> <<>>, accessToken |-> <<>>]

\* kimiAuth.ts pollRefreshToken: the first read with a refresh token, or the
\* empty pair at the deadline
pollRefreshToken(reads) ==
  LET found == {k \in 1..Len(reads) : kimiReadFound(reads[k])}
  IN IF found = {} THEN [refreshToken |-> <<>>, accessToken |-> <<>>]
     ELSE reads[CHOOSE k \in found : \A j \in found : k <= j]

\* qwenAuth.ts pollToken
pollToken(reads) ==
  LET found == {k \in 1..Len(reads) : qwenReadFound(reads[k])}
  IN IF found = {} THEN [token |-> <<>>]
     ELSE reads[CHOOSE k \in found : \A j \in found : k <= j]

\* summarizeWithKimi throws `err`
KimiThrows(err) ==
  /\ pc' = "catch"
  /\ obs' = [obs EXCEPT !.kimiResult = err, !.raised = err,
                        !.fileErr = IF req.path = "file" THEN err ELSE @,
                        !.textOutcome = IF req.path = "text" THEN err ELSE @]
  /\ req' = req

\* summarizeWithKimi takes the file path for a file-first URL, else the text path
KimiBeginPath(sawCred) ==
  IF req.fileFirst
  THEN /\ pc' = "upload"
       /\ req' = [req EXCEPT !.path = "file"]
       /\ obs' = [obs EXCEPT !.hadCred = @ \/ sawCred]
  ELSE /\ pc' = "createChat"
       /\ req' = [req EXCEPT !.path = "text"]
       /\ obs' = [obs EXCEPT !.textRuns = @ + 1, !.hadCred = @ \/ sawCred]

\* ensureKimiRefreshToken: read the stored credential
KimiEnsureStored(io) ==
  /\ req.provider = "kimi_web"
  /\ pc = "ensure"
  /\ LET r == getKimiTokens(kimi_tokens, io)
     IN IF r.err # NoError
        THEN KimiThrows(r.err) /\ tokenState' = tokenState
        ELSE IF r.value # Null
        THEN KimiBeginPath(TRUE) /\ tokenState' = r.value
        ELSE pc' = "ensureTab" /\ UNCHANGED <<req, obs, tokenState>>
  /\ UNCHANGED <<rwa, kimi_tokens, qwen_tokens, now>>

ensureKimiCapture_CloseThrows(raw, tabOk, reads, ioSave, closeOk, clock) ==
  IF ~tabOk
  THEN [raw |-> raw, err |-> AppError("RUNTIME", 0), value |-> Null,
        tabOpened |-> FALSE, tabActive |-> FALSE, closeTried |-> FALSE]
  ELSE LET tokens == pollRefreshToken(reads)
           saved == saveKimiTokens(raw, tokens, ioSave, clock)
       IN IF ~closeOk
          THEN [raw |-> IF tokens.refreshToken = <<>> THEN raw ELSE saved.raw,
                err |-> AppError("RUNTIME", 0), value |-> Null,
                tabOpened |-> TRUE, tabActive |-> FALSE, closeTried |-> TRUE]
          ELSE IF tokens.refreshToken = <<>>
          THEN [raw |-> raw, err |-> AppError("AUTH", 0), value |-> Null,
                tabOpened |-> TRUE, tabActive |-> FALSE, closeTried |-> TRUE]
          ELSE [raw |-> saved.raw, err |-> saved.err, value |-> saved.value,
                tabOpened |-> TRUE, tabActive |-> FALSE, closeTried |-> TRUE]

\* ensureKimiRefreshToken when no credential is stored: createTab with
\* active: false, pollRefreshToken, persistRefreshToken, and closeTab in the
\* finally block with its rejection caught.  The result is the store
\* afterwards, the error thrown, the credential returned, and what happened
\* to the tab.
ensureKimiCapture(raw, tabOk, reads, ioSave, closeOk, clock) ==
  IF ~tabOk
  THEN [raw |-> raw, err |-> AppError("RUNTIME", 0), value |-> Null,
        tabOpened |-> FALSE, tabActive |-> FALSE, closeTried |-> FALSE]
  ELSE LET tokens == pollRefreshToken(reads)
           saved == saveKimiTokens(raw, tokens, ioSave, clock)
       IN IF tokens.refreshToken = <<>>
          THEN [raw |-> raw, err |-> AppError("AUTH", 0), value |-> Null,
                tabOpened |-> TRUE, tabActive |-> FALSE, closeTried |-> TRUE]
          ELSE [raw |-> saved.raw, err |-> saved.err, value |-> saved.value,
                tabOpened |-> TRUE, tabActive |-> FALSE, closeTried |-> TRUE]

\* kimiAuth.ts ensureKimiRefreshToken: the stored credential when there is
\* one, else the capture through the hidden tab
ensureKimiRefreshToken(raw, ioGet, tabOk, reads, ioSave, closeOk, clock) ==
  LET localTokens == getKimiTokens(raw, ioGet)
  IN IF localTokens.err # NoError \/ localTokens.value # Null
     THEN [raw |-> raw, err |-> localTokens.err, value |-> localTokens.value,
           tabOpened |-> FALSE, tabActive |-> FALSE, closeTried |-> FALSE]
     ELSE ensureKimiCapture(raw, tabOk, reads, ioSave, closeOk, clock)

\* qwenAuth.ts ensureQwenToken: the stored credential, else AUTH; no tab
ensureQwenToken(raw, io) ==
  LET localTokens == getQwenTokens(raw, io)
  IN [raw |-> raw,
      err |-> IF localTokens.err # NoError THEN localTokens.err
              ELSE IF localTokens.value = Null THEN AppError("AUTH", 0)
              ELSE NoError,
      value |-> localTokens.value,
      tabOpened |-> FALSE, tabActive |-> FALSE, closeTried |-> FALSE]

\* ensureKimiRefreshToken when no credential is stored: open the hidden tab,
\* poll it, persist what was found, close the tab
KimiEnsureCapture(tabOk, reads, io, closeOk) ==
  /\ req.provider = "kimi_web"
  /\ pc = "ensureTab"
  /\ LET r == ensureKimiCapture(kimi_tokens, tabOk, reads, io, closeOk, now)
     IN /\ kimi_tokens' = r.raw
        /\ IF r.err # NoError
           THEN KimiThrows(r.err) /\ tokenState' = tokenState
           ELSE KimiBeginPath(TRUE) /\ tokenState' = r.value
  /\ UNCHANGED <<rwa, qwen_tokens, now>>

\* a transport step of summarizeWithKimi resumes after its requestWithAuth call
KimiStepReturn(body) ==
  /\ req.provider = "kimi_web"
  /\ pc \in KimiSteps
  /\ rwa.phase = "done"
  /\ LET o == kimiStepOutcome(pc, rwa.err, rwa.status, body, req.endpointIdx)
         \* the responses sendMessageStream has had from requestWithAuth, the
         \* number of candidate paths it has requested and the error it
         \* threw, for the run of sendMessageStream in progress
         seen == IF pc = "send"
                 THEN [obs EXCEPT
                         !.sendLog = IF rwa.err = NoError THEN Append(@, rwa.status) ELSE @,
                         !.sendErr = IF o.t = "throw" THEN o.err ELSE @]
                 ELSE obs
     IN CASE o.t = "goto" ->
               /\ pc' = o.pc
               /\ req' = [req EXCEPT !.endpointIdx = IF o.pc = "send" THEN 1 ELSE @,
                                      !.inputTokens = IF o.pc = "send" THEN tokenState ELSE @]
               /\ obs' = IF o.pc = "send"
                         THEN [obs EXCEPT !.sendLog = <<>>, !.sendTried = 1,
                                          !.sendErr = NoError]
                         ELSE obs
          [] o.t = "retry" ->
               /\ pc' = "send"
               /\ req' = [req EXCEPT !.endpointIdx = @ + 1]
               /\ obs' = [seen EXCEPT !.sendTried = @ + 1]
          [] o.t = "return" ->
               /\ pc' = "record"
               /\ req' = [req EXCEPT !.inputTokens = Null]
               /\ obs' = [seen EXCEPT !.kimiResult = NoError,
                                      !.textOutcome = IF req.path = "text" THEN NoError ELSE @]
          [] o.t = "throw" ->
               IF req.path = "file" /\ ~isAuthError(o.err)
               THEN /\ pc' = "createChat"
                    /\ req' = [req EXCEPT !.path = "text", !.endpointIdx = 0,
                                           !.inputTokens = Null]
                    /\ obs' = [seen EXCEPT !.fileErr = o.err, !.textRuns = @ + 1]
               ELSE /\ pc' = "catch"
                    /\ req' = [req EXCEPT !.inputTokens = Null]
                    /\ obs' = [seen EXCEPT
                                 !.kimiResult = o.err, !.raised = o.err,
                                 !.fileErr = IF req.path = "file" THEN o.err ELSE @,
                                 !.textOutcome = IF req.path = "text" THEN o.err ELSE @]
  /\ rwa' = RwaIdle
  /\ UNCHANGED <<tokenState, kimi_tokens, qwen_tokens, now>>

KimiCatch_FallBackToRest(io) ==
  /\ req.provider = "kimi_web"
  /\ pc = "catch"
  /\ pc' = "rest"
  /\ kimi_tokens' = kimi_tokens
  /\ obs' = obs
  /\ UNCHANGED <<req, tokenState, rwa, qwen_tokens, now>>

\* summarizeActiveTab's catch around summarizeWithKimi
KimiCatch(io) ==
  /\ req.provider = "kimi_web"
  /\ pc = "catch"
  /\ pc' = "delivered"
  /\ IF isAuthAppError(obs.raised)
     THEN LET r == clearKimiTokens(kimi_tokens, io)
          IN /\ kimi_tokens' = r.raw
             /\ obs' = [obs EXCEPT !.invalidated = @ \/ r.err = NoError,
                                   !.delivered = AppError("AUTH", 0)]
     ELSE /\ kimi_tokens' = kimi_tokens
          /\ obs' = [obs EXCEPT !.delivered = obs.raised]
  /\ UNCHANGED <<req, tokenState, rwa, qwen_tokens, now>>

\* summarizeActiveTab after the provider branch returned a summary: the
\* record is built and addSummaryRecord awaited, then the result returned
recordSummary(ioGet, ioSet) ==
  LET record == summaryRecordOf(req.provider, req.model)
      r == addSummaryRecord(summary_history, record, ioGet, ioSet)
  IN /\ pc = "record"
     /\ pc' = "delivered"
     /\ summary_history' = r.raw
     /\ obs' = [obs EXCEPT !.delivered = r.err,
                           !.raised = IF r.err # NoError THEN r.err ELSE @,
                           !.history = [called |-> TRUE, record |-> record,
                                        before |-> summary_history, err |-> r.err]]
     /\ UNCHANGED <<req, tokenState, rwa, kimi_tokens, qwen_tokens, now>>

\* summarizeActiveTab after a summary: addSummaryRecord, then the result
KimiRecord(ioGet, ioSet) ==
  /\ req.provider = "kimi_web"
  /\ recordSummary(ioGet, ioSet)

\* the response has been sent; the background process is idle again
Acknowledge ==
  /\ pc = "delivered"
  /\ pc' = "idle"
  /\ req' = ReqIdle
  /\ tokenState' = Null
  /\ rwa' = RwaIdle
  /\ obs' = ObsIdle
  /\ UNCHANGED <<kimi_tokens, qwen_tokens, now>>

\* kimiAuth.ts connectKimiInteractive: the store afterwards, the error thrown
\* and the status returned
connectKimiInteractive(raw, tabOk, reads, ioSave, ioGet, clock) ==
  IF ~tabOk THEN [raw |-> raw, err |-> AppError("RUNTIME", 0), connected |-> FALSE]
  ELSE LET tokens == pollRefreshToken(reads)
       IN IF tokens.refreshToken = <<>>
          THEN [raw |-> raw, err |-> AppError("AUTH", 0), connected |-> FALSE]
          ELSE LET saved == saveKimiTokens(raw, tokens, ioSave, clock)
                   status == getKimiAuthStatus(saved.raw, ioGet)
               IN IF saved.err # NoError
                  THEN [raw |-> saved.raw, err |-> saved.err, connected |-> FALSE]
                  ELSE IF status.err # NoError
                  THEN [raw |-> saved.raw, err |-> status.err, connected |-> FALSE]
                  ELSE [raw |-> saved.raw, err |-> NoError,
                        connected |-> status.value.connected]

\* qwenAuth.ts connectQwenInteractive
connectQwenInteractive(raw, tabOk, reads, ioSave, ioGet, clock) ==
  IF ~tabOk THEN [raw |-> raw, err |-> AppError("RUNTIME", 0), connected |-> FALSE]
  ELSE LET tokens == pollToken(reads)
       IN IF tokens.token = <<>>
          THEN [raw |-> raw, err |-> AppError("AUTH", 0), connected |-> FALSE]
          ELSE LET saved == saveQwenTokens(raw, [token |-> tokens.token, account |-> <<>>],
                                           ioSave, clock)
                   status == getQwenAuthStatus(saved.raw, ioGet)
               IN IF saved.err # NoError
                  THEN [raw |-> saved.raw, err |-> saved.err, connected |-> FALSE]
                  ELSE IF status.err # NoError
                  THEN [raw |-> saved.raw, err |-> status.err, connected |-> FALSE]
                  ELSE [raw |-> saved.raw, err |-> NoError,
                        connected |-> status.value.connected]

\* a CONNECT_KIMI message: foreground tab, poll, persist, report the status
ConnectKimiInteractive(tabOk, reads, ioSave, ioGet) ==
  /\ pc = "idle"
  /\ LET r == connectKimiInteractive(kimi_tokens, tabOk, reads, ioSave, ioGet, now)
     IN /\ kimi_tokens' = r.raw
        /\ obs' = [ObsIdle EXCEPT !.connect =
                     [called |-> TRUE, tabOk |-> tabOk,
                      observed |-> \E k \in 1..Len(reads) : kimiReadFound(reads[k]),
                      polled |-> pollRefreshToken(reads).refreshToken,
                      saveOk |-> ioSave, statusOk |-> ioGet,
                      before |-> kimi_tokens, err |-> r.err, connected |-> r.connected]]
  /\ pc' = "delivered"
  /\ req' = [ReqIdle EXCEPT !.provider = "kimi_web", !.path = "connect"]
  /\ UNCHANGED <<tokenState, rwa, qwen_tokens, now>>

(***************************************************************************)
(* Qwen transport (qwen.ts) and summarize flow (qwenSummarize.ts).         *)
(***************************************************************************)
\* checkAuth: the error thrown, or the account reported
checkAuth(tokens, fetched, body, account) ==
  IF trim(tokens.token) = <<>> THEN [err |-> ensureAuthError(401), account |-> <<>>]
  ELSE IF fetched.thrown # "none" THEN [err |-> AppError(fetched.thrown, 0), account |-> <<>>]
  ELSE IF fetched.status \in AuthStatuses
  THEN [err |-> ensureAuthError(fetched.status), account |-> <<>>]
  ELSE IF body = "unauthorized" THEN [err |-> ensureAuthError(401), account |-> <<>>]
  ELSE IF ~responseOk(fetched.status)
  THEN [err |-> createHttpError(fetched.status), account |-> <<>>]
  ELSE [err |-> NoError, account |-> account]

\* qwen.ts createChat: the error thrown, if any
qwenCreateChat(tokens, fetched, body) ==
  IF trim(tokens.token) = <<>> THEN ensureAuthError(401)
  ELSE IF fetched.thrown # "none" THEN AppError(fetched.thrown, 0)
  ELSE IF fetched.status \in AuthStatuses THEN ensureAuthError(fetched.status)
  ELSE IF body = "unauthorized" THEN ensureAuthError(401)
  ELSE IF ~responseOk(fetched.status) THEN createHttpError(fetched.status)
  ELSE IF body = "bad" THEN AppError("RUNTIME", 0)
  ELSE NoError

\* qwen.ts sendMessageStream with collectStreamContent: the error thrown, if any
qwenSendMessageStream(tokens, fetched, body) ==
  IF trim(tokens.token) = <<>> THEN ensureAuthError(401)
  ELSE IF fetched.thrown # "none" THEN AppError(fetched.thrown, 0)
  ELSE IF fetched.status \in AuthStatuses THEN ensureAuthError(fetched.status)
  ELSE IF ~responseOk(fetched.status)
  THEN IF body = "unauthorized" THEN ensureAuthError(401)
       ELSE createHttpError(fetched.status)
  ELSE IF body = "unauthorized" THEN ensureAuthError(401)
  ELSE IF body = "bad" THEN AppError("RUNTIME", 0)
  ELSE NoError

\* qwenSummarize.ts isAuthError
isAuthErrorQwen(error) == error.code = "AUTH"

\* summarizeWithQwen is called
StartSummarizeQwen ==
  /\ pc = "idle"
  /\ pc' = "qEnsure"
  /\ req' = [ReqIdle EXCEPT !.provider = "qwen_web"]
  /\ tokenState' = Null
  /\ rwa' = RwaIdle
  /\ obs' = [ObsIdle EXCEPT !.hadCred = sanitizeQwenTokens(qwen_tokens) # Null]
  /\ UNCHANGED <<kimi_tokens, qwen_tokens, now>>

\* an error thrown inside summarizeWithQwen's try block
QwenThrows(err) ==
  /\ pc' = "qCatch"
  /\ obs' = [obs EXCEPT !.raised = err]

\* ensureQwenToken (outside the try block)
QwenEnsure(io) ==
  /\ pc = "qEnsure"
  /\ LET r == ensureQwenToken(qwen_tokens, io)
     IN IF r.err # NoError
        THEN /\ pc' = "delivered"
             /\ obs' = [obs EXCEPT !.raised = r.err, !.delivered = r.err]
             /\ tokenState' = tokenState
        ELSE /\ pc' = "qCheckAuth"
             /\ obs' = obs
             /\ tokenState' = r.value
  /\ UNCHANGED <<req, rwa, kimi_tokens, qwen_tokens, now>>

QwenCheckAuth(fetched, body, account) ==
  /\ pc = "qCheckAuth"
  /\ LET r == checkAuth(tokenState, fetched, body, account)
     IN IF r.err # NoError
        THEN QwenThrows(r.err) /\ req' = req
        ELSE IF r.account # <<>> /\ r.account # tokenState.account
        THEN pc' = "qSaveAccount" /\ req' = [req EXCEPT !.account = r.account] /\ obs' = obs
        ELSE pc' = "qCreateChat" /\ req' = req /\ obs' = obs
  /\ UNCHANGED <<tokenState, rwa, kimi_tokens, qwen_tokens, now>>

\* tokenState = await saveQwenTokens({token, account})
QwenSaveAccount(io) ==
  /\ pc = "qSaveAccount"
  /\ LET r == saveQwenTokens(qwen_tokens, [token |-> tokenState.token, account |-> req.account],
                             io, now)
     IN IF r.err # NoError
        THEN QwenThrows(r.err) /\ UNCHANGED <<tokenState, qwen_tokens>>
        ELSE /\ pc' = "qCreateChat"
             /\ obs' = obs
             /\ tokenState' = r.value
             /\ qwen_tokens' = r.raw
  /\ UNCHANGED <<req, rwa, kimi_tokens, now>>

QwenCreateChat(fetched, body) ==
  /\ pc = "qCreateChat"
  /\ LET err == qwenCreateChat(tokenState, fetched, body)
     IN IF err # NoError
        THEN QwenThrows(err)
        ELSE pc' = "qSend" /\ obs' = obs
  /\ UNCHANGED <<req, tokenState, rwa, kimi_tokens, qwen_tokens, now>>

\* `return sendMessageStream(...)` hands the promise back without awaiting it,
\* so its rejection settles the caller's promise and the catch never runs
QwenSend(fetched, body) ==
  /\ pc = "qSend"
  /\ pc' = "delivered"
  /\ LET err == qwenSendMessageStream(tokenState, fetched, body)
     IN obs' = [obs EXCEPT !.raised = err, !.delivered = err]
  /\ UNCHANGED <<req, tokenState, rwa, kimi_tokens, qwen_tokens, now>>

\* summarizeWithQwen's catch: invalidate on AuthExpired, then rethrow
QwenCatch(io) ==
  /\ pc = "qCatch"
  /\ pc' = "delivered"
  /\ IF isAuthErrorQwen(obs.raised)
     THEN LET r == clearQwenTokens(qwen_tokens, io)
          IN /\ qwen_tokens' = r.raw
             /\ obs' = [obs EXCEPT !.invalidated = @ \/ r.err = NoError,
                                   !.delivered = IF r.err = NoError THEN obs.raised ELSE r.err]
     ELSE /\ qwen_tokens' = qwen_tokens
          /\ obs' = [obs EXCEPT !.delivered = obs.raised]
  /\ UNCHANGED <<req, tokenState, rwa, kimi_tokens, now>>

\* connectQwenInteractive: foreground tab, poll, persist, report the status
ConnectQwenInteractive(tabOk, reads, ioSave, ioGet) ==
  /\ pc = "idle"
  /\ LET r == connectQwenInteractive(qwen_tokens, tabOk, reads, ioSave, ioGet, now)
     IN /\ qwen_tokens' = r.raw
        /\ obs' = [ObsIdle EXCEPT !.connect =
                     [called |-> TRUE, tabOk |-> tabOk,
                      observed |-> \E k \in 1..Len(reads) : qwenReadFound(reads[k]),
                      polled |-> pollToken(reads).token,
                      saveOk |-> ioSave, statusOk |-> ioGet,
                      before |-> qwen_tokens, err |-> r.err, connected |-> r.connected]]
  /\ pc' = "delivered"
  /\ req' = [ReqIdle EXCEPT !.provider = "qwen_web", !.path = "connect"]
  /\ UNCHANGED <<tokenState, rwa, kimi_tokens, now>>

(***************************************************************************)
(* Key-based REST provider (openai.ts) and its branch of summarizeActiveTab.*)
(***************************************************************************)
\* baseUrl.trim().replace(/\/+$/, "")
RECURSIVE stripTrailingSlashes(_)
stripTrailingSlashes(s) ==
  IF s # <<>> /\ s[Len(s)] = "/" THEN stripTrailingSlashes(SubSeq(s, 1, Len(s) - 1)) ELSE s

normalizeBaseUrl(baseUrl) == stripTrailingSlashes(trim(baseUrl))

\* errors.ts mapHttpStatusToMessage: the kind of message chosen
mapHttpStatusToMessage(status) ==
  IF status = 401 \/ status = 403 THEN "credential"
  ELSE IF status = 429 THEN "rate-limit"
  ELSE IF status >= 500 THEN "unavailable"
  ELSE "generic"

\* the kind of message an error carries
messageOf(error) ==
  IF error.code = "HTTP" THEN mapHttpStatusToMessage(error.status)
  ELSE IF error.code = "none" THEN "none"
  ELSE "other"

\* the settings the REST provider reads
RestSettings ==
  [apiBaseUrl : {<<"/">>, <<"u", "/">>}, apiKey : {<<" ">>, <<"k">>}, model : {<<>>, <<"m">>}]

\* the JSON of a 2xx completion response: content present, content empty or
\* absent, or a body response.json() rejects
RestBodies == {"good", "bad", "malformed"}

summarizePage_AuthOnUnauthorized(settings, fetched, body) ==
  IF normalizeBaseUrl(settings.apiBaseUrl) = <<>> \/ trim(settings.apiKey) = <<>>
       \/ trim(settings.model) = <<>>
  THEN AppError("VALIDATION", 0)
  ELSE IF fetched.thrown # "none" THEN AppError(fetched.thrown, 0)
  ELSE IF fetched.status \in AuthStatuses THEN ensureAuthError(fetched.status)
  ELSE IF ~responseOk(fetched.status) THEN createHttpError(fetched.status)
  ELSE IF body = "malformed" THEN RawException
  ELSE IF body = "bad" THEN AppError("RUNTIME", 0)
  ELSE NoError

\* the JSON of a 2xx model-list response: ids present, no usable id, a body
\* response.json() rejects, or JSON of another shape (data is not an array,
\* an id is not a string)
ModelListBodies == {"good", "bad", "malformed", "misshapen"}

\* openai.ts fetchModels: the error thrown, if any
fetchModels(input, fetched, body) ==
  IF normalizeBaseUrl(input.apiBaseUrl) = <<>> \/ trim(input.apiKey) = <<>>
  THEN AppError("VALIDATION", 0)
  ELSE IF fetched.thrown # "none" THEN AppError(fetched.thrown, 0)
  ELSE IF ~responseOk(fetched.status) THEN createHttpError(fetched.status)
  ELSE IF body \in {"malformed", "misshapen"} THEN RawException
  ELSE IF body = "bad" THEN AppError("RUNTIME", 0)
  ELSE NoError

\* openai.ts summarizePage: the error thrown, if any
summarizePage(settings, fetched, body) ==
  IF normalizeBaseUrl(settings.apiBaseUrl) = <<>> \/ trim(settings.apiKey) = <<>>
       \/ trim(settings.model) = <<>>
  THEN AppError("VALIDATION", 0)
  ELSE IF fetched.thrown # "none" THEN AppError(fetched.thrown, 0)
  ELSE IF ~responseOk(fetched.status) THEN createHttpError(fetched.status)
  ELSE IF body = "malformed" THEN RawException
  ELSE IF body = "bad" THEN AppError("RUNTIME", 0)
  ELSE NoError

\* a SUMMARIZE_ACTIVE_TAB message with the key-based provider arrives
StartSummarizeRest ==
  /\ pc = "idle"
  /\ Len(summary_history) < MaxRecorded
  /\ pc' = "prepare"
  /\ req' = [ReqIdle EXCEPT !.provider = "openai", !.path = "rest"]
  /\ tokenState' = Null
  /\ rwa' = RwaIdle
  /\ obs' = [ObsIdle EXCEPT !.rest.stored = <<kimi_tokens, qwen_tokens>>,
                            !.history.before = summary_history]
  /\ UNCHANGED <<kimi_tokens, qwen_tokens, now>>

\* summarizeActiveTab's else branch: await summarizePage(...)
RestSummarizePage(settings, fetched, body) ==
  /\ pc = "rest"
  /\ LET err == summarizePage(settings, fetched, body)
         sent == normalizeBaseUrl(settings.apiBaseUrl) # <<>> /\ trim(settings.apiKey) # <<>>
                   /\ trim(settings.model) # <<>> /\ fetched.thrown = "none"
         seen == [obs EXCEPT !.rest.invoked = TRUE,
                             !.rest.status = IF sent THEN fetched.status ELSE 0,
                             !.rest.message = messageOf(err)]
     IN IF err = NoError
        THEN pc' = "record" /\ obs' = seen
        ELSE /\ pc' = "delivered"
             /\ obs' = [seen EXCEPT !.raised = err, !.delivered = err]
  /\ req' = [req EXCEPT !.model = settings.model]
  /\ UNCHANGED <<tokenState, rwa, kimi_tokens, qwen_tokens, now>>

\* summarizeActiveTab after a summary of the REST provider: addSummaryRecord
RestRecord(ioGet, ioSet) ==
  /\ req.provider = "openai"
  /\ recordSummary(ioGet, ioSet)

InitReqIdle ==
  /\ pc = "idle"
  /\ req = ReqIdle
  /\ tokenState = Null
  /\ rwa = RwaIdle
  /\ obs = ObsIdle

(***************************************************************************)
(* Text helpers: the String and RegExp operations the text transforms use. *)
(***************************************************************************)
LF == "\n"
CR == "\r"
TAB == "\t"
BOM == "U+FEFF"               \* the byte-order mark, one character
FullwidthSemicolon == "U+FF1B" \* the character joining pipe segments, one character
Digits == {"0", "1", "2", "3", "4", "5", "6", "7", "8", "9"}

\* what the RegExp class \s matches
RegexSpace == {" ", TAB, LF, CR, BOM}

\* String.prototype.slice(from) with a 1-based index
sliceFrom(s, from) == SubSeq(s, from, Len(s))

\* number of consecutive characters of `set` in s, starting at index i
RECURSIVE runLength(_, _, _)
runLength(s, i, set) ==
  IF i <= Len(s) /\ s[i] \in set THEN 1 + runLength(s, i + 1, set) ELSE 0

\* String.prototype.indexOf(c) for one character, 1-based, 0 when absent
RECURSIVE indexOfChar(_, _, _)
indexOfChar(s, c, from) ==
  IF from > Len(s) THEN 0
  ELSE IF s[from] = c THEN from
  ELSE indexOfChar(s, c, from + 1)

\* String.prototype.split(c) for one character
RECURSIVE split(_, _)
split(s, c) ==
  LET i == indexOfChar(s, c, 1)
  IN IF i = 0 THEN <<s>>
     ELSE <<SubSeq(s, 1, i - 1)>> \o split(sliceFrom(s, i + 1), c)

\* Array.prototype.join(sep)
RECURSIVE join(_, _)
join(parts, sep) ==
  IF parts = <<>> THEN <<>>
  ELSE IF Len(parts) = 1 THEN parts[1]
  ELSE parts[1] \o sep \o join(Tail(parts), sep)

\* number of occurrences of character c in s
countChar(s, c) == Cardinality({i \in 1..Len(s) : s[i] = c})

\* whether `p` occurs in s at index i
matchesAt(s, i, p) ==
  i + Len(p) - 1 <= Len(s) /\ SubSeq(s, i, i + Len(p) - 1) = p

(***************************************************************************)
(* Markdown normalization (markdown.ts).                                   *)
(***************************************************************************)
\* markdown.replace(/\r\n?/g, "\n")
RECURSIVE normalizeNewlines(_)
normalizeNewlines(s) ==
  IF s = <<>> THEN <<>>
  ELSE IF Head(s) = CR
  THEN <<LF>> \o normalizeNewlines(IF Len(s) >= 2 /\ s[2] = LF THEN sliceFrom(s, 3) ELSE Tail(s))
  ELSE <<Head(s)>> \o normalizeNewlines(Tail(s))

\* .replace(/^\uFEFF/, "")
stripBom(s) == IF s # <<>> /\ Head(s) = BOM THEN Tail(s) ELSE s

\* /^:?-{3,}:?$/ on a trimmed table cell
isSeparatorCell(cell) ==
  LET c1 == IF cell # <<>> /\ Head(cell) = ":" THEN Tail(cell) ELSE cell
      dashes == runLength(c1, 1, {"-"})
      rest == sliceFrom(c1, dashes + 1)
  IN dashes >= 3 /\ rest \in {<<>>, <<":">>}

\* /^\s*\|.*\|\s*$/.test(line.trim())
isPipeRow(line) ==
  LET t == trim(line)
  IN Len(t) >= 2 /\ Head(t) = "|" /\ t[Len(t)] = "|"

\* /^\s*\|?\s*:?-{3,}:?\s*(\|\s*:?-{3,}:?\s*)+\|?\s*$/.test(line.trim())
isTableSeparator(line) ==
  LET t == trim(line)
      parts == split(t, "|")
      p1 == IF Len(parts) > 1 /\ parts[1] = <<>> THEN Tail(parts) ELSE parts
      cells == IF Len(p1) > 1 /\ p1[Len(p1)] = <<>> THEN SubSeq(p1, 1, Len(p1) - 1) ELSE p1
  IN /\ Len(cells) >= 2
     /\ \A k \in 1..Len(cells) : isSeparatorCell(trim(cells[k]))

\* line.replace(/^(\s{0,3}#{1,6})([^\s#])/g, "$1 $2")
normalizeHeadingSpacing(line) ==
  LET spaces == runLength(line, 1, RegexSpace)
      hashes == runLength(line, spaces + 1, {"#"})
  IN IF /\ spaces <= 3
        /\ hashes \in 1..6
        /\ spaces + hashes < Len(line)
        /\ line[spaces + hashes + 1] \notin RegexSpace
     THEN SubSeq(line, 1, spaces + hashes) \o <<" ">> \o sliceFrom(line, spaces + hashes + 1)
     ELSE line

\* .map(trim).filter(non-empty).filter(not /^:?-{3,}:?$/)
RECURSIVE pipeSegments(_)
pipeSegments(parts) ==
  IF parts = <<>> THEN <<>>
  ELSE LET segment == trim(Head(parts))
       IN (IF Len(segment) > 0 /\ ~isSeparatorCell(segment) THEN <<segment>> ELSE <<>>)
            \o pipeSegments(Tail(parts))

normalizePipeHeavyLine(line) ==
  LET pipeCount == countChar(line, "|")
      segments == pipeSegments(split(line, "|"))
  IN IF pipeCount < 4 THEN line
     ELSE IF Len(segments) < 2 THEN line
     ELSE <<"-", " ">> \o join(segments, <<FullwidthSemicolon>>)

\* the loop of normalizeSummaryMarkdown over the lines, from line `index`
RECURSIVE normalizeLines(_, _, _)
normalizeLines(lines, index, inTable) ==
  IF index > Len(lines) THEN <<>>
  ELSE LET current == normalizeHeadingSpacing(lines[index])
           next == IF index + 1 <= Len(lines) THEN lines[index + 1] ELSE <<>>
           stays == inTable /\ (isPipeRow(current) \/ isTableSeparator(current))
           opens == ~stays /\ isPipeRow(current) /\ isTableSeparator(next)
       IN IF stays THEN <<current>> \o normalizeLines(lines, index + 1, TRUE)
          ELSE IF opens THEN <<current>> \o normalizeLines(lines, index + 1, TRUE)
          ELSE <<normalizePipeHeavyLine(current)>> \o normalizeLines(lines, index + 1, FALSE)

\* .replace(/[ \t]+\n/g, "\n")
RECURSIVE stripBlanksBeforeNewline(_, _)
stripBlanksBeforeNewline(s, i) ==
  IF i > Len(s) THEN <<>>
  ELSE LET blanks == runLength(s, i, {" ", TAB})
       IN IF blanks = 0 THEN <<s[i]>> \o stripBlanksBeforeNewline(s, i + 1)
          ELSE IF i + blanks <= Len(s) /\ s[i + blanks] = LF
          THEN <<LF>> \o stripBlanksBeforeNewline(s, i + blanks + 1)
          ELSE SubSeq(s, i, i + blanks - 1) \o stripBlanksBeforeNewline(s, i + blanks)

\* whether /#{1,6}\s/ matches at index i; the length of the match, or 0
headingMarkerAt(s, i) ==
  LET hashes == runLength(s, i, {"#"})
  IN IF hashes \in 1..6 /\ i + hashes <= Len(s) /\ s[i + hashes] \in RegexSpace
     THEN hashes + 1
     ELSE 0

\* .replace(/([^\n])\n(#{1,6}\s)/g, "$1\n\n$2")
RECURSIVE blankLineBeforeHeading(_, _)
blankLineBeforeHeading(s, i) ==
  IF i > Len(s) THEN <<>>
  ELSE LET marker == IF s[i] # LF /\ i + 1 <= Len(s) /\ s[i + 1] = LF
                     THEN headingMarkerAt(s, i + 2)
                     ELSE 0
       IN IF marker > 0
          THEN <<s[i], LF, LF>> \o SubSeq(s, i + 2, i + 1 + marker)
                 \o blankLineBeforeHeading(s, i + 2 + marker)
          ELSE <<s[i]>> \o blankLineBeforeHeading(s, i + 1)

\* the negative lookahead (?!\n|#|- |\* |\+ |\d+\. |> |\|) at index p
blockedAfterHeading(s, p) ==
  LET digits == runLength(s, p, Digits)
  IN /\ p <= Len(s)
     /\ \/ s[p] \in {LF, "#", "|"}
        \/ matchesAt(s, p, <<"-", " ">>)
        \/ matchesAt(s, p, <<"*", " ">>)
        \/ matchesAt(s, p, <<"+", " ">>)
        \/ matchesAt(s, p, <<">", " ">>)
        \/ digits >= 1 /\ matchesAt(s, p + digits, <<".", " ">>)

\* the index of the "\n" ending a match of /^(#{1,6}\s[^\n]+)\n(?!...)/m
\* that starts at index i, or 0
headingLineEnd(s, i) ==
  LET marker == headingMarkerAt(s, i)
      body == runLength(s, i + marker, {s[k] : k \in 1..Len(s)} \ {LF})
      end == i + marker + body
  IN IF marker > 0 /\ body >= 1 /\ end <= Len(s) /\ ~blockedAfterHeading(s, end + 1)
     THEN end
     ELSE 0

\* .replace(/^(#{1,6}\s[^\n]+)\n(?!\n|#|- |\* |\+ |\d+\. |> |\|)/gm, "$1\n\n")
RECURSIVE blankLineAfterHeading(_, _, _)
blankLineAfterHeading(s, i, atLineStart) ==
  IF i > Len(s) THEN <<>>
  ELSE LET end == IF atLineStart THEN headingLineEnd(s, i) ELSE 0
       IN IF end > 0
          THEN SubSeq(s, i, end) \o <<LF>> \o blankLineAfterHeading(s, end + 1, TRUE)
          ELSE <<s[i]>> \o blankLineAfterHeading(s, i + 1, s[i] = LF)

\* .replace(/\n{3,}/g, "\n\n")
RECURSIVE collapseBlankLines(_, _)
collapseBlankLines(s, i) ==
  IF i > Len(s) THEN <<>>
  ELSE LET newlines == runLength(s, i, {LF})
       IN IF newlines >= 3 THEN <<LF, LF>> \o collapseBlankLines(s, i + newlines)
          ELSE <<s[i]>> \o collapseBlankLines(s, i + 1)

normalizeSummaryMarkdown(markdown) ==
  IF trim(markdown) = <<>> THEN markdown
  ELSE LET input == stripBom(normalizeNewlines(markdown))
           joined == join(normalizeLines(split(input, LF), 1, FALSE), <<LF>>)
           a == stripBlanksBeforeNewline(joined, 1)
           b == blankLineBeforeHeading(a, 1)
           c == blankLineAfterHeading(b, 1, TRUE)
           d == collapseBlankLines(c, 1)
       IN trim(d)

(***************************************************************************)
(* Stream collection (kimi.ts and qwen.ts): prompt-echo stripping, the     *)
(* Qwen layout pass, chunk classification and collectStreamContent.        *)
(***************************************************************************)
\* the noisy prefixes of stripPromptEcho, in the order of the array; each
\* literal is one token of the text alphabet
NoisyPrefixes ==
  << <<"[strict-summary-preamble]">>, <<"[system-requirements]">>,
     <<"[user-request]">>, <<"[summarize-following-page]">> >>

\* output.split(p).join("") for a non-empty p: every occurrence removed,
\* scanning from the left
RECURSIVE removeAll(_, _)
removeAll(s, p) ==
  IF s = <<>> THEN <<>>
  ELSE IF matchesAt(s, 1, p) THEN removeAll(sliceFrom(s, Len(p) + 1), p)
  ELSE <<Head(s)>> \o removeAll(Tail(s), p)

\* String.prototype.includes
includes(s, p) == \E i \in 1..(Len(s) + 1) : matchesAt(s, i, p)

\* String.prototype.lastIndexOf with a 1-based index, 0 when absent
lastIndexOf(s, p) ==
  LET hits == {i \in 1..(Len(s) + 1) : matchesAt(s, i, p)}
  IN IF hits = {} THEN 0 ELSE CHOOSE i \in hits : \A j \in hits : j <= i

\* the loop of stripPromptEcho over the noisy prefixes, from prefix k
RECURSIVE stripNoisyPrefixes(_, _)
stripNoisyPrefixes(output, k) ==
  IF k > Len(NoisyPrefixes) THEN output
  ELSE LET prefix == NoisyPrefixes[k]
           lastIdx == lastIndexOf(output, prefix)
       IN IF startsWith(output, prefix) /\ lastIdx > 1
          THEN stripNoisyPrefixes(trim(sliceFrom(output, lastIdx)), k + 1)
          ELSE stripNoisyPrefixes(output, k + 1)

stripPromptEcho(text, prompt) ==
  LET output == trim(text)
      cleanPrompt == trim(prompt)
  IN IF output = <<>> THEN output
     ELSE stripNoisyPrefixes(
            IF cleanPrompt # <<>> /\ includes(output, cleanPrompt)
            THEN trim(removeAll(output, cleanPrompt))
            ELSE output, 1)

\* text.replace(/\r\n/g, "\n")
RECURSIVE replaceCrLf(_)
replaceCrLf(s) ==
  IF s = <<>> THEN <<>>
  ELSE IF matchesAt(s, 1, <<CR, LF>>) THEN <<LF>> \o replaceCrLf(sliceFrom(s, 3))
  ELSE <<Head(s)>> \o replaceCrLf(Tail(s))

\* where ^ matches under the m flag: after one of these
LineTerminators == {LF, CR}

\* .replace(/^(#{1,6})([^\s#])/gm, "$1 $2")
RECURSIVE layoutHeadingSpacing(_, _, _)
layoutHeadingSpacing(s, i, atLineStart) ==
  IF i > Len(s) THEN <<>>
  ELSE LET hashes == IF atLineStart THEN runLength(s, i, {"#"}) ELSE 0
       IN IF hashes \in 1..6 /\ i + hashes <= Len(s) /\ s[i + hashes] \notin RegexSpace
          THEN SubSeq(s, i, i + hashes - 1) \o <<" ", s[i + hashes]>>
                 \o layoutHeadingSpacing(s, i + hashes + 1, FALSE)
          ELSE <<s[i]>> \o layoutHeadingSpacing(s, i + 1, s[i] \in LineTerminators)

\* the negative lookahead (?!\n|#|- |\d+\. |\|) at index p
layoutBlockedAfterHeading(s, p) ==
  LET digits == runLength(s, p, Digits)
  IN /\ p <= Len(s)
     /\ \/ s[p] \in {LF, "#", "|"}
        \/ matchesAt(s, p, <<"-", " ">>)
        \/ digits >= 1 /\ matchesAt(s, p + digits, <<".", " ">>)

\* the index of the "\n" ending a match of /^(#{1,6}\s[^\n]+)\n(?!...)/m
\* that starts at index i, or 0
layoutHeadingLineEnd(s, i) ==
  LET marker == headingMarkerAt(s, i)
      body == runLength(s, i + marker, {s[k] : k \in 1..Len(s)} \ {LF})
      end == i + marker + body
  IN IF marker > 0 /\ body >= 1 /\ end <= Len(s) /\ ~layoutBlockedAfterHeading(s, end + 1)
     THEN end
     ELSE 0

\* .replace(/^(#{1,6}\s[^\n]+)\n(?!\n|#|- |\d+\. |\|)/gm, "$1\n\n")
RECURSIVE layoutBlankLineAfterHeading(_, _, _)
layoutBlankLineAfterHeading(s, i, atLineStart) ==
  IF i > Len(s) THEN <<>>
  ELSE LET end == IF atLineStart THEN layoutHeadingLineEnd(s, i) ELSE 0
       IN IF end > 0
          THEN SubSeq(s, i, end) \o <<LF>> \o layoutBlankLineAfterHeading(s, end + 1, TRUE)
          ELSE <<s[i]>> \o layoutBlankLineAfterHeading(s, i + 1, s[i] \in LineTerminators)

\* qwen.ts normalizeMarkdownLayout
normalizeMarkdownLayout(text) ==
  LET a == layoutHeadingSpacing(replaceCrLf(text), 1, TRUE)
      b == stripBlanksBeforeNewline(a, 1)
      c == blankLineBeforeHeading(b, 1)
      d == layoutBlankLineAfterHeading(c, 1, TRUE)
  IN trim(collapseBlankLines(d, 1))

\* a line of the event stream after "data:": a parsed JSON payload with the
\* text, role and event extractStreamPiece finds in it and the error code and
\* detail getStringField finds in it, text that JSON.parse rejects, or the
\* [DONE] marker.  An event name, a code and a detail are sequences of
\* lower-case words; a RegExp test or String.includes on them is a test for
\* one of the words
Payload(text, role, event, code, detail) ==
  [kind |-> "json", text |-> text, role |-> role, event |-> event,
   code |-> code, detail |-> detail]
Malformed == [kind |-> "malformed", text |-> <<>>, role |-> "", event |-> <<>>,
              code |-> <<>>, detail |-> <<>>]
DoneMarker == [Malformed EXCEPT !.kind = "done"]

hasWord(words, set) == \E k \in 1..Len(words) : words[k] \in set

\* /(request|req|input|prompt|user)/i
RequestLikeWords == {"request", "req", "input", "prompt", "user"}
\* /(completion|cmpl|assistant|reply|delta|token|output|answer)/i
AssistantLikeWords ==
  {"completion", "cmpl", "assistant", "reply", "delta", "token", "output", "answer"}

shouldUseAsAssistantChunk_Never(piece) == FALSE

shouldUseAsAssistantChunk(piece) ==
  IF piece.role \in {"assistant", "model", "bot"} THEN TRUE
  ELSE IF piece.role \in {"user", "system"} THEN FALSE
  ELSE IF piece.event = <<>> THEN FALSE
  ELSE IF hasWord(piece.event, RequestLikeWords) THEN FALSE
  ELSE IF hasWord(piece.event, AssistantLikeWords) THEN TRUE
  ELSE FALSE

\* qwen.ts isUnauthorizedCode
isUnauthorizedCode(code) == hasWord(code, {"unauthorized", "forbidden", "token"})

\* qwen.ts isUnauthorizedDetail
isUnauthorizedDetail(detail) ==
  hasWord(detail, {"unauthorized", "session has expired",
                   "token is no longer valid", "no permission"})

\* qwen.ts isUnauthorizedPayload
isUnauthorizedPayload(payload) ==
  isUnauthorizedCode(payload.code) \/ isUnauthorizedDetail(payload.detail)

\* const primary = assistantText.trim().length > 0 ? assistantText : allText
choosePrimary_AnyAssistant(allText, assistantText) ==
  IF Len(assistantText) > 0 THEN assistantText ELSE allText

choosePrimary(allText, assistantText) ==
  IF Len(trim(assistantText)) > 0 THEN assistantText ELSE allText

\* kimi.ts: normalizeSummaryMarkdown(stripPromptEcho(primary, prompt))
kimiSummaryOf(primary, prompt) ==
  normalizeSummaryMarkdown(stripPromptEcho(primary, prompt))

\* qwen.ts: normalizeSummaryMarkdown(normalizeMarkdownLayout(stripPromptEcho(primary, prompt)))
qwenSummaryOf(primary, prompt) ==
  normalizeSummaryMarkdown(normalizeMarkdownLayout(stripPromptEcho(primary, prompt)))

\* the result of a send: t is "none", "return", "throw" or "retry" (Kimi: the
\* next candidate path is tried)
SendResult(t, text, err) == [t |-> t, text |-> text, err |-> err]
NoResult == SendResult("none", <<>>, NoError)

\* kimi.ts sendMessageStream after a 2xx response to candidate endpointIdx,
\* given what collectStreamContent did: it threw (the response had no body and
\* no text) or returned `summary`
kimiSendResult(threw, summary, endpointIdx) ==
  LET body == IF threw THEN "nobody" ELSE IF summary # <<>> THEN "good" ELSE "bad"
      o == kimiStepOutcome("send", NoError, 200, body, endpointIdx)
  IN SendResult(o.t, IF o.t = "return" THEN summary ELSE <<>>,
                IF o.t = "throw" THEN o.err ELSE NoError)

\* qwen.ts collectStreamContent at the end of the stream
qwenStreamResult(summary) ==
  IF summary = <<>> THEN SendResult("throw", <<>>, AppError("RUNTIME", 0))
  ELSE SendResult("return", summary, NoError)

\* collectStreamContent of a response without a body, for the text
\* extractStreamText finds in its payload
noBodyResult(transport, text, prompt, endpointIdx) ==
  IF transport = "kimi"
  THEN kimiSendResult(text = <<>>, kimiSummaryOf(text, prompt), endpointIdx)
  ELSE IF text # <<>> THEN SendResult("return", qwenSummaryOf(text, prompt), NoError)
  ELSE SendResult("throw", <<>>, AppError("RUNTIME", 0))

\* whether collectStreamContent throws ensureAuthError(401) for a parsed
\* payload: the Qwen transport tests isUnauthorizedPayload, the Kimi
\* transport has no such test
unauthorizedInStream(transport, piece) ==
  transport = "qwen" /\ piece.kind = "json" /\ isUnauthorizedPayload(piece)

StreamIdle ==
  [phase |-> "idle", transport |-> "none", hasBody |-> TRUE, prompt |-> <<>>,
   endpointIdx |-> 0, pieces |-> <<>>, allText |-> <<>>, assistantText |-> <<>>,
   primary |-> <<>>, result |-> NoResult, timer |-> "off"]

(***************************************************************************)
(* Prompt builder (prompt.ts): the effective template of a Settings value.  *)
(***************************************************************************)
DEFAULT_TEMPLATE_IDS ==
  {"short_2sent_3bullets", "detailed_bg_terms", "detailed_chapter", "detailed_fact_opinion"}

SummaryTemplateIds == DEFAULT_TEMPLATE_IDS \cup {"custom"}

\* the built-in system prompt of a default template, one token per template
DEFAULT_SYSTEM_PROMPTS == [id \in DEFAULT_TEMPLATE_IDS |-> <<id>>]

resolveEffectiveTemplateId_NoTrim(settings) ==
  IF settings.summaryTemplateId # "custom" THEN settings.summaryTemplateId
  ELSE IF Len(settings.customSystemPrompt) > 0 THEN "custom"
  ELSE settings.lastDefaultTemplateId

resolveEffectiveTemplateId(settings) ==
  IF settings.summaryTemplateId # "custom" THEN settings.summaryTemplateId
  ELSE IF Len(trim(settings.customSystemPrompt)) > 0 THEN "custom"
  ELSE settings.lastDefaultTemplateId

buildSystemPrompt(settings) ==
  LET effectiveTemplateId == resolveEffectiveTemplateId(settings)
  IN IF effectiveTemplateId = "custom" THEN trim(settings.customSystemPrompt)
     ELSE DEFAULT_SYSTEM_PROMPTS[effectiveTemplateId]

SettingsValues ==
  [summaryTemplateId : SummaryTemplateIds,
   lastDefaultTemplateId : DEFAULT_TEMPLATE_IDS,
   customSystemPrompt : StringsUpTo(TokenChars, MaxTokLen)]

TplIdle ==
  [settings |-> [summaryTemplateId |-> "short_2sent_3bullets",
                 lastDefaultTemplateId |-> "short_2sent_3bullets",
                 customSystemPrompt |-> <<>>],
   effectiveTemplateId |-> "none", systemPrompt |-> <<>>, done |-> FALSE]

MdIdle == [input |-> <<>>, once |-> <<>>, twice |-> <<>>, steps |-> 0]

InitTextIdle ==
  /\ stream = StreamIdle
  /\ md = MdIdle
  /\ tpl = TplIdle

InitStore ==
  /\ kimi_tokens = Null
  /\ qwen_tokens = Null
  /\ now = 0
  /\ lastOp = NoOp
  /\ expected = [kimi_web |-> NothingExpected, qwen_web |-> NothingExpected]
  /\ driven = "kimi_web"

InitMergeIdle ==
  /\ mergeCurrent = <<>>
  /\ mergeNext = <<>>
  /\ mergeResult = <<>>
  /\ mergeDone = FALSE

Panels == 1..MaxPanels

\* a handleMessage call: its position, the provider of its settings, the
\* credential it holds, the history it read, and its error
HandlerIdle ==
  [pc |-> "idle", provider |-> "none", tokens |-> Null, current |-> <<>>,
   err |-> NoError]

\* nothing has been stored under the history and settings keys; no message
\* is being handled
\* the stream reader before a body is opened; splitLine records whether a
\* read has ended inside a line
SseIdle ==
  [phase |-> "idle", transport |-> "none", body |-> <<>>, pos |-> 0,
   splitLine |-> FALSE, buffer |-> <<>>, currentEventName |-> <<>>,
   allText |-> <<>>, assistantText |-> <<>>, err |-> NoError]

ChunkIdle ==
  [piece |-> [text |-> <<>>, role |-> "", event |-> <<>>], assistant |-> FALSE,
   done |-> FALSE]

EchoIdle == [text |-> <<>>, prompt |-> <<>>, result |-> <<>>, done |-> FALSE]

InitParseIdle ==
  /\ sse = SseIdle
  /\ classified = ChunkIdle
  /\ echo = EchoIdle

InitLocalIdle ==
  /\ summary_history = <<>>
  /\ stored_settings = Null
  /\ inflight = [p \in Panels |-> HandlerIdle]
  /\ InitParseIdle

vars == <<kimi_tokens, qwen_tokens, now, lastOp, expected, driven,
          mergeCurrent, mergeNext, mergeResult, mergeDone,
          pc, req, tokenState, rwa, obs, stream, md, tpl,
          summary_history, stored_settings, inflight, sse, classified, echo>>

InitStoreFor(provider) ==
  /\ kimi_tokens = Null
  /\ qwen_tokens = Null
  /\ now = 0
  /\ lastOp = NoOp
  /\ expected = [kimi_web |-> NothingExpected, qwen_web |-> NothingExpected]
  /\ driven = provider

StoreInit ==
  /\ \E provider \in {"kimi_web", "qwen_web"} : InitStoreFor(provider)
  /\ InitMergeIdle
  /\ InitReqIdle
  /\ InitLocalIdle
  /\ InitTextIdle

(***************************************************************************)
(* The background process handling summarization requests one at a time.   *)
(***************************************************************************)
Init == InitStore /\ InitMergeIdle /\ InitReqIdle /\ InitTextIdle /\ InitLocalIdle

others == <<lastOp, expected, driven, mergeVars, textVars, localVars>>

othersButHistory ==
  <<lastOp, expected, driven, mergeVars, textVars, stored_settings, inflight,
    parseVars>>

Next ==
  \/ \E fileFirst \in BOOLEAN : StartSummarize(fileFirst) /\ UNCHANGED others
  \/ \E result \in {"ok", "RUNTIME", "VALIDATION"} : Prepare(result) /\ UNCHANGED others
  \/ \E io \in BOOLEAN : KimiEnsureStored(io) /\ UNCHANGED others
  \/ \E tabOk \in BOOLEAN, reads \in KimiTabReads, io \in BOOLEAN,
        closeOk \in BOOLEAN :
       KimiEnsureCapture(tabOk, reads, io, closeOk) /\ UNCHANGED others
  \/ RequestWithAuthBegin /\ UNCHANGED others
  \/ \E fetched \in FetchResults, payload \in RefreshPayloads :
       RequestWithAuthRefresh(fetched, payload) /\ UNCHANGED others
  \/ \E io \in BOOLEAN : RequestWithAuthPersist(io) /\ UNCHANGED others
  \/ \E fetched \in FetchResults : RequestWithAuthExecute(fetched) /\ UNCHANGED others
  \/ \E io \in BOOLEAN : RequestWithAuthInvalidate(io) /\ UNCHANGED others
  \/ \E body \in Bodies : KimiStepReturn(body) /\ UNCHANGED others
  \/ \E io \in BOOLEAN : KimiCatch(io) /\ UNCHANGED others
  \/ \E ioGet \in BOOLEAN, ioSet \in BOOLEAN :
       KimiRecord(ioGet, ioSet) /\ UNCHANGED othersButHistory
  \/ Acknowledge /\ UNCHANGED others
  \/ \E tabOk \in BOOLEAN, reads \in KimiTabReads, ioSave \in BOOLEAN, ioGet \in BOOLEAN :
       ConnectKimiInteractive(tabOk, reads, ioSave, ioGet) /\ UNCHANGED others
  \/ StartSummarizeRest /\ UNCHANGED others
  \/ \E settings \in RestSettings, fetched \in FetchResults, body \in RestBodies :
       RestSummarizePage(settings, fetched, body) /\ UNCHANGED others
  \/ \E ioGet \in BOOLEAN, ioSet \in BOOLEAN :
       RestRecord(ioGet, ioSet) /\ UNCHANGED othersButHistory
  \/ StartSummarizeQwen /\ UNCHANGED others
  \/ \E io \in BOOLEAN : QwenEnsure(io) /\ UNCHANGED others
  \/ \E fetched \in FetchResults, body \in QwenBodies, account \in QwenAccounts :
       QwenCheckAuth(fetched, body, account) /\ UNCHANGED others
  \/ \E io \in BOOLEAN : QwenSaveAccount(io) /\ UNCHANGED others
  \/ \E fetched \in FetchResults, body \in QwenBodies :
       QwenCreateChat(fetched, body) /\ UNCHANGED others
  \/ \E fetched \in FetchResults, body \in QwenBodies :
       QwenSend(fetched, body) /\ UNCHANGED others
  \/ \E io \in BOOLEAN : QwenCatch(io) /\ UNCHANGED others
  \/ \E tabOk \in BOOLEAN, reads \in QwenTabReads, ioSave \in BOOLEAN, ioGet \in BOOLEAN :
       ConnectQwenInteractive(tabOk, reads, ioSave, ioGet) /\ UNCHANGED others

Spec == Init /\ [][Next]_vars

StoreNext ==
  \/ \E refreshToken \in TokenInputs, accessToken \in SecondaryInputs, io \in BOOLEAN :
       /\ driven = "kimi_web"
       /\ StoreSaveKimi([refreshToken |-> refreshToken, accessToken |-> accessToken], io)
       /\ UNCHANGED <<mergeVars, reqVars, localVars, textVars>>
  \/ \E token \in TokenInputs, account \in SecondaryInputs, io \in BOOLEAN :
       /\ driven = "qwen_web"
       /\ StoreSaveQwen([token |-> token, account |-> account], io)
       /\ UNCHANGED <<mergeVars, reqVars, localVars, textVars>>
  \/ \E io \in BOOLEAN : driven = "kimi_web" /\ StoreClearKimi(io) /\ UNCHANGED <<mergeVars, reqVars, localVars, textVars>>
  \/ \E io \in BOOLEAN : driven = "qwen_web" /\ StoreClearQwen(io) /\ UNCHANGED <<mergeVars, reqVars, localVars, textVars>>
  \/ \E io \in BOOLEAN : driven = "kimi_web" /\ StoreGetKimi(io) /\ UNCHANGED <<mergeVars, reqVars, localVars, textVars>>
  \/ \E io \in BOOLEAN : driven = "qwen_web" /\ StoreGetQwen(io) /\ UNCHANGED <<mergeVars, reqVars, localVars, textVars>>
  \/ \E io \in BOOLEAN : driven = "kimi_web" /\ StoreStatusKimi(io) /\ UNCHANGED <<mergeVars, reqVars, localVars, textVars>>
  \/ \E io \in BOOLEAN : driven = "qwen_web" /\ StoreStatusQwen(io) /\ UNCHANGED <<mergeVars, reqVars, localVars, textVars>>
  \/ Tick /\ UNCHANGED <<mergeVars, reqVars, localVars, textVars>>

\* the Token Store driven by any sequence of save, clear, get and status calls
SpecStore == StoreInit /\ [][StoreNext]_vars

(***************************************************************************)
(* Stream merge applied to an accumulated text and a chunk.                *)
(***************************************************************************)
Texts == StringsUpTo(TextChars, MaxLen)

MergeInit ==
  /\ InitStore
  /\ InitReqIdle
  /\ InitLocalIdle
  /\ InitTextIdle
  /\ mergeCurrent \in Texts
  /\ mergeNext \in Texts
  /\ mergeResult = <<>>
  /\ mergeDone = FALSE

MergeStep_KeepNewest ==
  /\ ~mergeDone
  /\ mergeResult' = IF mergeNext = <<>> THEN mergeCurrent ELSE mergeNext
  /\ mergeDone' = TRUE
  /\ UNCHANGED <<mergeCurrent, mergeNext, kimi_tokens, qwen_tokens, now, lastOp, expected, driven>>
  /\ UNCHANGED <<reqVars, localVars, textVars>>

MergeStep ==
  /\ ~mergeDone
  /\ mergeResult' = mergeStreamChunk(mergeCurrent, mergeNext)
  /\ mergeDone' = TRUE
  /\ UNCHANGED <<mergeCurrent, mergeNext, kimi_tokens, qwen_tokens, now, lastOp, expected, driven>>
  /\ UNCHANGED <<reqVars, localVars, textVars>>

MergeNext == MergeStep

SpecMerge == MergeInit /\ [][MergeNext]_vars

(***************************************************************************)
(* Markdown normalization applied to a text, and again to its result.      *)
(***************************************************************************)
\* the line shapes the normalizer distinguishes
MdLineShapes ==
  { <<>>,
    <<"a">>,
    <<"a", " ">>,
    <<"#">>,
    <<"#", "a">>,
    <<"#", " ", "a">>,
    <<" ", " ", " ", " ", "#", "a">>,
    <<"-", " ", "a">>,
    <<"|", "a", "|", "b", "|">>,
    <<"|", "-", "-", "-", "|", "-", "-", "-", "|">>,
    <<"a", "|", "b", "|", "c", "|", "d", "|", "e">> }

RECURSIVE MdTexts(_)
MdTexts(n) ==
  IF n = 1 THEN MdLineShapes
  ELSE LET shorter == MdTexts(n - 1)
       IN shorter \cup {t \o <<LF>> \o l : t \in shorter, l \in MdLineShapes}

MdInputs == MdTexts(MaxMdLines)

MarkdownInit ==
  /\ InitStore
  /\ InitMergeIdle
  /\ InitReqIdle
  /\ InitLocalIdle
  /\ stream = StreamIdle
  /\ tpl = TplIdle
  /\ \E input \in MdInputs : md = [MdIdle EXCEPT !.input = input]

\* a provider's raw output is normalized before display
NormalizeOnce ==
  /\ md.steps = 0
  /\ md' = [md EXCEPT !.once = normalizeSummaryMarkdown(md.input), !.steps = 1]
  /\ UNCHANGED <<storeVars, obsVars, mergeVars, reqVars, localVars, stream, tpl>>

\* already-normalized text is normalized again
NormalizeAgain ==
  /\ md.steps = 1
  /\ md' = [md EXCEPT !.twice = normalizeSummaryMarkdown(md.once), !.steps = 2]
  /\ UNCHANGED <<storeVars, obsVars, mergeVars, reqVars, localVars, stream, tpl>>

MarkdownNext == NormalizeOnce \/ NormalizeAgain

SpecMarkdown == MarkdownInit /\ [][MarkdownNext]_vars


(***************************************************************************)
(* The prompt builder applied to a Settings value.                         *)
(***************************************************************************)
PromptInit ==
  /\ InitStore
  /\ InitMergeIdle
  /\ InitReqIdle
  /\ InitLocalIdle
  /\ stream = StreamIdle
  /\ md = MdIdle
  /\ \E settings \in SettingsValues : tpl = [TplIdle EXCEPT !.settings = settings]

\* buildSummaryMessages resolves the template and builds the system prompt
BuildPrompt ==
  /\ ~tpl.done
  /\ tpl' = [tpl EXCEPT !.effectiveTemplateId = resolveEffectiveTemplateId(tpl.settings),
                        !.systemPrompt = buildSystemPrompt(tpl.settings),
                        !.done = TRUE]
  /\ UNCHANGED <<storeVars, obsVars, mergeVars, reqVars, localVars, stream, md>>

PromptNext == BuildPrompt

SpecPrompt == PromptInit /\ [][PromptNext]_vars

(***************************************************************************)
(* Stream collection as a machine: one 2xx response to a send, read piece  *)
(* by piece (collectStreamContent of kimi.ts and qwen.ts).                 *)
(***************************************************************************)
Hello_ == <<"h", "e", "l", "l", "o", " ">>
World == <<"w", "o", "r", "l", "d">>
HelloWor == Hello_ \o <<"w", "o", "r">>
HelloWorld == Hello_ \o World
Hi == <<"H", "i">>
There == <<" ", "t", "h", "e", "r", "e">>

\* the texts a payload with assistant role carries
StreamTexts == {Hello_, World, HelloWor, HelloWorld, Hi, There, <<" ">>}

\* the lines the backend can send
StreamPieces ==
  {Payload(t, "assistant", <<>>, <<>>, <<>>) : t \in StreamTexts}
    \cup {Payload(<<"a">>, "user", <<>>, <<>>, <<>>),
          Payload(<<"#", "a">>, "", <<>>, <<>>, <<>>),
          Payload(<<"a">>, "", <<"cmpl">>, <<>>, <<>>),
          Payload(<<"a">>, "", <<"user", "delta">>, <<>>, <<>>),
          Payload(<<>>, "", <<>>, <<"unauthorized">>, <<>>),
          Payload(<<"a">>, "", <<>>, <<>>, <<"session has expired">>),
          Malformed, DoneMarker}

\* the message content sent, which the backend may echo
StreamPrompts == {<<>>, <<"a">>}

\* the text extractStreamText finds in the payload of a response without a body
NoBodyTexts == {<<>>, <<" ">>, <<"a">>, Hi}

StreamInit ==
  /\ InitStore
  /\ InitMergeIdle
  /\ InitReqIdle
  /\ InitLocalIdle
  /\ InitTextIdle

\* a 2xx response with a body arrives for candidate path endpointIdx
OpenStream(transport, prompt, endpointIdx) ==
  /\ stream.phase = "idle"
  /\ stream' = [StreamIdle EXCEPT !.phase = "reading", !.transport = transport,
                                  !.prompt = prompt, !.endpointIdx = endpointIdx]

\* a 2xx response without a body arrives
NoBodyResponse(transport, prompt, endpointIdx, text) ==
  /\ stream.phase = "idle"
  /\ stream' = [StreamIdle EXCEPT !.phase = "done", !.transport = transport,
                                  !.hasBody = FALSE, !.prompt = prompt,
                                  !.endpointIdx = endpointIdx, !.primary = text,
                                  !.result = noBodyResult(transport, text, prompt, endpointIdx)]

\* one "data:" line is read (in the loop, or as the unterminated tail)
ReceivePiece(piece) ==
  /\ stream.phase = "reading"
  /\ Len(stream.pieces) < MaxChunks
  /\ LET logged == [stream EXCEPT !.pieces = Append(@, piece)]
     IN stream' =
          IF unauthorizedInStream(stream.transport, piece)
          THEN [logged EXCEPT !.phase = "aborted",
                              !.result = SendResult("throw", <<>>, ensureAuthError(401))]
          ELSE IF piece.kind # "json" \/ piece.text = <<>> THEN logged
          ELSE [logged EXCEPT
                  !.allText = mergeStreamChunk(@, piece.text),
                  !.assistantText = IF shouldUseAsAssistantChunk(piece)
                                    THEN mergeStreamChunk(@, piece.text)
                                    ELSE @]

\* the reader reports done
EndOfStream ==
  /\ stream.phase = "reading"
  /\ LET primary == choosePrimary(stream.allText, stream.assistantText)
     IN stream' =
          [stream EXCEPT
             !.phase = "done",
             !.primary = primary,
             !.result = IF stream.transport = "kimi"
                        THEN kimiSendResult(FALSE, kimiSummaryOf(primary, stream.prompt),
                                            stream.endpointIdx)
                        ELSE qwenStreamResult(qwenSummaryOf(primary, stream.prompt))]

StreamNext ==
  /\ \/ \E prompt \in StreamPrompts :
          \/ \E endpointIdx \in 1..StreamEndpoints : OpenStream("kimi", prompt, endpointIdx)
          \/ OpenStream("qwen", prompt, 1)
     \/ \E prompt \in StreamPrompts, text \in NoBodyTexts :
          \/ \E endpointIdx \in 1..StreamEndpoints :
               NoBodyResponse("kimi", prompt, endpointIdx, text)
          \/ NoBodyResponse("qwen", prompt, 1, text)
     \/ \E piece \in StreamPieces : ReceivePiece(piece)
     \/ EndOfStream
  /\ UNCHANGED <<storeVars, obsVars, mergeVars, reqVars, localVars, md, tpl>>

SpecStream == StreamInit /\ [][StreamNext]_vars

(***************************************************************************)
(* Claims.                                                                 *)
(***************************************************************************)
RawOf(provider) == IF provider = "kimi_web" THEN kimi_tokens ELSE qwen_tokens

StoredOf(provider) ==
  IF provider = "kimi_web" THEN sanitizeKimiTokens(kimi_tokens)
  ELSE sanitizeQwenTokens(qwen_tokens)

PrimaryOf(provider, cred) ==
  IF provider = "kimi_web" THEN cred.refreshToken ELSE cred.token

BlankSave == lastOp.op = "save" /\ trim(lastOp.input) = <<>>

\* C8 as stated: a save (saveKimiTokens, saveQwenTokens) of a credential whose
\* refresh value is empty or whitespace-only fails with InvalidInput (code
\* VALIDATION) and leaves the stored credential unchanged.
C8_BlankSaveFailsInvalidInput ==
  BlankSave =>
    /\ lastOp.err.code = "VALIDATION"
    /\ ~lastOp.changed

\* C8 amended: a save of a credential whose refresh value is empty or
\* whitespace-only fails with AuthExpired (code AUTH) and leaves the stored
\* credential unchanged.
C8_BlankSaveFailsAuth ==
  BlankSave =>
    /\ lastOp.err.code = "AUTH"
    /\ ~lastOp.changed

\* a whitespace-only refresh value was offered while a credential was stored
C8_Witness ==
  /\ BlankSave
  /\ lastOp.input # <<>>
  /\ lastOp.hadStored
  /\ lastOp.err # NoError

\* C9: after any sequence of save, clear and get, get returns the trimmed
\* credential of the last successful save, or none when a clear came after it;
\* status.connected is true exactly when get returns a credential; every
\* credential returned by get has a non-empty refresh value.
C9_GetReturnsLastSave ==
  /\ (lastOp.op = "get" /\ lastOp.err = NoError) =>
       /\ lastOp.value = expected[lastOp.provider].cred
       /\ lastOp.value # Null => PrimaryOf(lastOp.provider, lastOp.value) # <<>>
  /\ (lastOp.op = "status" /\ lastOp.err = NoError) =>
       (lastOp.value.connected <=> StoredOf(lastOp.provider) # Null)
  /\ StoredOf("kimi_web") = expected.kimi_web.cred
  /\ StoredOf("qwen_web") = expected.qwen_web.cred

\* a get that returns none because a clear followed a successful save
C9_Witness ==
  /\ lastOp.op = "get"
  /\ lastOp.err = NoError
  /\ lastOp.value = Null
  /\ expected[lastOp.provider].clearedAfterSave

\* C10: stream merge is idempotent under duplicate delivery: whenever the
\* accumulated text T already ends with the chunk X, mergeStreamChunk(T, X) = T.
C10_MergeDuplicateSuffix ==
  (mergeDone /\ endsWith(mergeCurrent, mergeNext)) => mergeResult = mergeCurrent

\* a proper, non-prefix suffix of the accumulated text was delivered again
C10_Witness ==
  /\ mergeDone
  /\ endsWith(mergeCurrent, mergeNext)
  /\ mergeNext # <<>>
  /\ Len(mergeNext) < Len(mergeCurrent)
  /\ ~startsWith(mergeCurrent, mergeNext)


(***************************************************************************)
(* Properties of requestWithAuth (kimi.ts).                                *)
(***************************************************************************)
FirstResponseAuth == Len(rwa.statuses) >= 1 /\ rwa.statuses[1] \in AuthStatuses

RetryResponseAuth == Len(rwa.statuses) >= 2 /\ rwa.statuses[2] \in AuthStatuses

\* the refresh that follows the first response succeeded and was persisted
RetryRefreshed ==
  /\ rwa.refreshOk = (IF rwa.cachedOnEntry THEN 1 ELSE 2)
  /\ ~rwa.persistFailed

\* C1: an invocation of requestWithAuth issues at most 2 upstream calls and
\* at most 1 call to the token-refresh endpoint, whether or not an access
\* token was cached on entry.
C1_AtMostTwoCallsOneRefresh ==
  rwa.upstreamCalls <= 2 /\ rwa.refreshCalls <= 1

\* C2: when the first upstream response is 401/403 the call is retried
\* exactly once; when the retry also answers 401/403, onAuthInvalid is called
\* and the invocation fails with code AUTH; there is never a third attempt.
C2_RetryExactlyOnce ==
  /\ rwa.upstreamCalls <= 2
  /\ rwa.phase = "done" /\ FirstResponseAuth =>
       /\ rwa.upstreamCalls = 2
       /\ RetryResponseAuth => rwa.authInvalidCalls = 1 /\ rwa.err.code = "AUTH"

\* C2 (amended): after a 401/403 first response the call is retried exactly
\* once when the refresh succeeds and the new pair is persisted, and not at all
\* otherwise; when the retry also answers 401/403, onAuthInvalid is called
\* once and the invocation fails with code AUTH and the retry's status, or with
\* onAuthInvalid's own error when that fails; there is never a third attempt.
C2_RetryOnceAfterRefresh ==
  /\ rwa.upstreamCalls <= 2
  /\ rwa.phase = "done" /\ FirstResponseAuth =>
       /\ rwa.upstreamCalls = (IF RetryRefreshed THEN 2 ELSE 1)
       /\ ~RetryRefreshed => rwa.err # NoError
       /\ RetryResponseAuth =>
            /\ rwa.authInvalidCalls = 1
            /\ rwa.err = IF rwa.authInvalidFailed
                         THEN StorageError
                         ELSE ensureAuthError(rwa.statuses[2])

C2_Witness ==
  /\ rwa.phase = "done"
  /\ FirstResponseAuth /\ RetryResponseAuth
  /\ rwa.authInvalidCalls = 1
  /\ rwa.err.code = "AUTH"

\* the stored credential is the pair requestWithAuth currently holds
StoredIsCurrent ==
  LET stored == sanitizeKimiTokens(kimi_tokens)
  IN /\ stored # Null
     /\ stored.refreshToken = trim(rwa.currentTokens.refreshToken)
     /\ stored.accessToken = trim(rwa.currentTokens.accessToken)

\* C3: within an invocation of requestWithAuth, an upstream call that follows
\* a successful refresh is issued only once onTokens has completed and the new
\* pair is the stored one; once persisting has failed the invocation issues no
\* upstream call any more.
C3_PersistBeforeNextCall ==
  /\ rwa.phase = "execute" /\ rwa.refreshOk > 0 =>
       ~rwa.persistFailed /\ StoredIsCurrent /\ tokenState = rwa.currentTokens
  /\ rwa.persistFailed => rwa.phase \in {"authInvalid", "done"}

C3_Witness ==
  /\ rwa.phase = "execute"
  /\ rwa.refreshOk = 1
  /\ rwa.upstreamCalls = 1
  /\ StoredIsCurrent

(***************************************************************************)
(* Properties of the summarization flows.                                  *)
(***************************************************************************)
Failed(error) == error.code \notin {"none", "pending"}

\* summarizeWithKimi has returned or thrown
KimiSettled ==
  req.provider = "kimi_web" /\ req.path \in {"file", "text"}
    /\ pc \in {"catch", "record", "delivered"}

\* C4: when a Kimi or Qwen summarization fails with code AUTH, the store holds
\* no credential for that provider at the moment the error is delivered.
C4_AuthFailureLeavesNoCredential ==
  pc = "delivered" /\ obs.delivered.code = "AUTH" => StoredOf(req.provider) = Null

\* C5: when a Kimi or Qwen summarization fails with a code other than AUTH,
\* no credential is removed, a credential that was stored or rotated during
\* the request is still stored, and the caller receives the error unchanged.
C5_OtherFailuresKeepCredential ==
  pc = "delivered" /\ Failed(obs.raised) /\ obs.raised.code # "AUTH" =>
    /\ obs.delivered = obs.raised
    /\ ~obs.invalidated
    /\ obs.hadCred => StoredOf(req.provider) # Null

C5_Witness ==
  /\ pc = "delivered"
  /\ obs.raised.code = "HTTP"
  /\ obs.delivered.code = "HTTP"
  /\ obs.hadCred
  /\ StoredOf(req.provider) # Null

\* C6: for a file-first URL, when the file path fails with a code other than
\* AUTH the text path runs exactly once and its outcome is the outcome of
\* summarizeWithKimi.
C6_FileFailureFallsBackOnce ==
  req.fileFirst /\ Failed(obs.fileErr) /\ obs.fileErr.code # "AUTH" =>
    /\ obs.textRuns = 1
    /\ KimiSettled => obs.kimiResult # Pending /\ obs.kimiResult = obs.textOutcome

C6_Witness ==
  /\ KimiSettled /\ req.fileFirst
  /\ obs.fileErr.code = "RUNTIME"
  /\ obs.textRuns = 1
  /\ obs.kimiResult = NoError

\* C7: a failure with code AUTH on the file path is the outcome of
\* summarizeWithKimi, and the text path is not run in that request.
C7_FileAuthFailurePropagates ==
  req.fileFirst /\ obs.fileErr.code = "AUTH" =>
    /\ obs.textRuns = 0
    /\ KimiSettled /\ obs.kimiResult = obs.fileErr
    /\ pc = "delivered" => obs.delivered.code = "AUTH"

C7_Witness ==
  /\ pc = "delivered" /\ req.fileFirst
  /\ obs.fileErr.code = "AUTH"
  /\ obs.textRuns = 0
  /\ obs.delivered.code = "AUTH"

(***************************************************************************)
(* Properties of the Markdown normalizer.                                  *)
(***************************************************************************)
\* C17: normalizeSummaryMarkdown is idempotent: normalizing the result of a
\* normalization gives that result again.
C17_NormalizeIdempotent ==
  md.steps = 2 => md.twice = md.once

(***************************************************************************)
(* Properties of the prompt builder.                                       *)
(***************************************************************************)
\* C18: the effective template is summaryTemplateId when that is not
\* "custom"; it is lastDefaultTemplateId when it is "custom" and the custom
\* prompt is blank; otherwise it is "custom" and the system prompt is the
\* trimmed custom text.
C18_EffectiveTemplate ==
  tpl.done =>
    LET settings == tpl.settings
        blank == \A k \in 1..Len(settings.customSystemPrompt) :
                   settings.customSystemPrompt[k] \in Whitespace
    IN /\ settings.summaryTemplateId # "custom" =>
            tpl.effectiveTemplateId = settings.summaryTemplateId
       /\ settings.summaryTemplateId = "custom" /\ blank =>
            tpl.effectiveTemplateId = settings.lastDefaultTemplateId
       /\ settings.summaryTemplateId = "custom" /\ ~blank =>
            /\ tpl.effectiveTemplateId = "custom"
            /\ tpl.systemPrompt = trim(settings.customSystemPrompt)
            /\ tpl.systemPrompt # <<>>

C18_Witness ==
  /\ tpl.done
  /\ tpl.settings.summaryTemplateId = "custom"
  /\ tpl.settings.customSystemPrompt = <<" ">>
  /\ tpl.settings.lastDefaultTemplateId = "detailed_chapter"
  /\ tpl.effectiveTemplateId = "detailed_chapter"

(***************************************************************************)
(* Properties of stream collection.                                        *)
(***************************************************************************)
\* the texts of the lines read so far, in arrival order
PieceTexts == [k \in 1..Len(stream.pieces) |-> stream.pieces[k].text]

RECURSIVE concatAll(_)
concatAll(texts) == IF texts = <<>> THEN <<>> ELSE Head(texts) \o concatAll(Tail(texts))

\* every line read so far is a parsed payload that carries text
AllText == \A k \in 1..Len(stream.pieces) :
             stream.pieces[k].kind = "json" /\ stream.pieces[k].text # <<>>

\* C11: from an empty accumulator the merge rebuilds "hello world" from the
\* delta chunks "hello " and "world", from the cumulative chunks "hello " and
\* "hello world", and from the overlapping chunks "hello wor" and "world".
C11_MergeReconstructsHelloWorld ==
  /\ stream.phase = "reading"
  /\ PieceTexts \in {<<Hello_, World>>, <<Hello_, HelloWorld>>, <<HelloWor, World>>}
  => stream.allText = HelloWorld

C11_Witness ==
  /\ stream.phase = "reading"
  /\ PieceTexts = <<HelloWor, World>>
  /\ stream.allText = HelloWorld

\* every line read is the [DONE] marker or a payload with assistant role and
\* non-empty text, and there is at least one such payload
AssistantDeltas ==
  /\ \A k \in 1..Len(stream.pieces) :
       \/ stream.pieces[k].kind = "done"
       \/ /\ stream.pieces[k].kind = "json"
          /\ stream.pieces[k].role = "assistant"
          /\ stream.pieces[k].text # <<>>
  /\ \E k \in 1..Len(stream.pieces) : stream.pieces[k].kind = "json"

\* no delta starts with a suffix of the text that precedes it, and none is a
\* prefix of that text
NoOverlapDeltas ==
  \A k \in 2..Len(stream.pieces) :
    LET before == concatAll(SubSeq(PieceTexts, 1, k - 1))
        delta == PieceTexts[k]
    IN delta # <<>> /\ before # <<>> =>
         findOverlapSuffixPrefix(before, delta) = 0 /\ ~startsWith(before, delta)

\* the summary the transport makes of `primary`
SummaryOf(primary) ==
  IF stream.transport = "kimi" THEN kimiSummaryOf(primary, stream.prompt)
  ELSE qwenSummaryOf(primary, stream.prompt)

\* C12 as stated: for every sequence of non-empty assistant deltas the
\* reconstructed text is the concatenation of the delta texts.
C12_DeltasAlwaysConcatenate ==
  stream.phase = "done" /\ stream.hasBody /\ AssistantDeltas
  => stream.primary = concatAll(PieceTexts)

\* C12: for every sequence of non-empty assistant deltas in which no delta
\* overlaps the text before it, the reconstructed text is the concatenation of
\* the delta texts, and a returned summary is the echo-stripped, normalized
\* concatenation; "Hi" then " there" gives "Hi there".
C12_DeltasConcatenate ==
  stream.phase = "done" /\ stream.hasBody /\ AssistantDeltas /\ NoOverlapDeltas
  => /\ stream.assistantText = concatAll(PieceTexts)
     /\ stream.primary = concatAll(PieceTexts)
     /\ stream.result.t = "return" => stream.result.text = SummaryOf(concatAll(PieceTexts))
     /\ PieceTexts = <<Hi, There, <<>> >> =>
          stream.result.t = "return" /\ stream.result.text = Hi \o There

C12_Witness ==
  /\ stream.phase = "done"
  /\ PieceTexts = <<Hi, There, <<>> >>
  /\ stream.pieces[3] = DoneMarker
  /\ stream.result.t = "return"
  /\ stream.result.text = Hi \o There

\* C13: on either transport a payload with the authorization-failure shape read
\* from a 2xx stream makes the send fail with AUTH.
C13_UnauthorizedPayloadFailsAuth ==
  (\E k \in 1..Len(stream.pieces) :
     stream.pieces[k].kind = "json" /\ isUnauthorizedPayload(stream.pieces[k]))
  => stream.result.t = "throw" /\ stream.result.err.code = "AUTH"

\* some line read was classified as assistant and carried text
SomeAssistantChunk ==
  \E k \in 1..Len(stream.pieces) :
    /\ stream.pieces[k].kind = "json"
    /\ stream.pieces[k].text # <<>>
    /\ shouldUseAsAssistantChunk(stream.pieces[k])

\* C14 as stated: at the end of the stream the result is built from the
\* assistant accumulator whenever some chunk was classified as assistant, and
\* from the all-text accumulator only when none was.
C14_AssistantWheneverClassified ==
  stream.phase = "done" /\ stream.hasBody
  => /\ SomeAssistantChunk => stream.primary = stream.assistantText
     /\ ~SomeAssistantChunk => stream.primary = stream.allText

\* C14: at the end of the stream the result is built from the assistant
\* accumulator whenever that accumulator holds a non-whitespace character, and
\* from the all-text accumulator otherwise, in particular when no chunk was
\* classified as assistant.
C14_AssistantWhenNonBlank ==
  stream.phase = "done" /\ stream.hasBody
  => /\ trim(stream.assistantText) # <<>> => stream.primary = stream.assistantText
     /\ trim(stream.assistantText) = <<>> => stream.primary = stream.allText
     /\ ~SomeAssistantChunk => stream.primary = stream.allText
     /\ stream.result.t = "return" => stream.result.text = SummaryOf(stream.primary)

C14_Witness ==
  /\ stream.phase = "done"
  /\ Len(stream.pieces) = 2
  /\ stream.pieces[1].role = "assistant"
  /\ stream.pieces[2].role = "user"
  /\ stream.assistantText = Hi
  /\ stream.allText = Hi \o <<"a">>
  /\ stream.primary = Hi

\* C15: on either transport an empty final text makes the send fail with
\* RUNTIME (on Kimi once no candidate path is left), and a send that returns
\* never returns an empty or whitespace-only summary.
C15_EmptySummaryFailsRuntime ==
  stream.phase = "done"
  => /\ stream.result.t = "return" => trim(stream.result.text) # <<>>
     /\ /\ stream.hasBody
        /\ SummaryOf(stream.primary) = <<>>
        /\ stream.transport = "kimi" => stream.endpointIdx = StreamEndpoints
        => stream.result.t = "throw" /\ stream.result.err.code = "RUNTIME"

(***************************************************************************)
(* Properties of the Kimi stream endpoint fallback.                        *)
(***************************************************************************)
\* a response that is neither 2xx nor 404
HardFailure(status) == status # 404 /\ ~responseOk(status)

C33_NextCandidateOnlyAfter404 ==
  \A k \in 1..Len(obs.sendLog) : obs.sendTried > k => obs.sendLog[k] = 404

(***************************************************************************)
(* Properties of the key-based REST provider.                              *)
(***************************************************************************)
\* C19: when the REST provider answers 401 to summarize, the caller receives
\* the error with code HTTP and status 401 and the credential-related
\* message, never AUTH, and the stored web-session credentials are the ones
\* stored when the request began.
C19_RestUnauthorizedIsHttp ==
  req.provider = "openai" =>
    /\ <<kimi_tokens, qwen_tokens>> = obs.rest.stored
    /\ obs.delivered.code # "AUTH"
    /\ obs.rest.status = 401 =>
         /\ pc = "delivered"
         /\ obs.delivered = AppError("HTTP", 401)
         /\ obs.rest.message = "credential"
         /\ ~obs.invalidated

C19_Witness ==
  /\ req.provider = "openai"
  /\ pc = "delivered"
  /\ obs.rest.status = 401
  /\ obs.delivered = AppError("HTTP", 401)
  /\ sanitizeKimiTokens(kimi_tokens) # Null

(***************************************************************************)
(* Properties of connectInteractive.                                       *)
(***************************************************************************)
\* a connectInteractive call has returned or thrown, and its tab was opened
Connected == obs.connect.called /\ obs.connect.tabOk

\* the Token Store entry of the provider is the one from before the call
StoreAsBefore == RawOf(req.provider) = obs.connect.before

\* the credential the poll returned is the stored one
PolledIsStored ==
  /\ StoredOf(req.provider) # Null
  /\ PrimaryOf(req.provider, StoredOf(req.provider)) = trim(obs.connect.polled)

\* C20 as stated: a credential observed before the timeout is persisted and
\* the returned status has connected = true; when none is observed the call
\* fails with AUTH and the Token Store is unchanged.
C20_ObservedIsPersisted ==
  Connected =>
    /\ obs.connect.observed =>
         obs.connect.err = NoError /\ obs.connect.connected /\ PolledIsStored
    /\ ~obs.connect.observed =>
         obs.connect.err = AppError("AUTH", 0) /\ StoreAsBefore

\* C20: a credential observed before the timeout is persisted and the
\* returned status has connected = true, provided the Token Store accepts the
\* write and the read of the status; when the write fails the call fails with
\* the storage error and the store is unchanged, when the read fails the call
\* fails with the storage error after the credential was persisted.  When none
\* is observed the call fails with AUTH and the Token Store is unchanged.
C20_ObservedIsPersistedUnlessStorageFails ==
  Connected =>
    /\ obs.connect.observed /\ obs.connect.saveOk /\ obs.connect.statusOk =>
         obs.connect.err = NoError /\ obs.connect.connected /\ PolledIsStored
    /\ obs.connect.observed /\ ~obs.connect.saveOk =>
         obs.connect.err = StorageError /\ StoreAsBefore
    /\ obs.connect.observed /\ obs.connect.saveOk /\ ~obs.connect.statusOk =>
         obs.connect.err = StorageError /\ PolledIsStored
    /\ ~obs.connect.observed =>
         obs.connect.err = AppError("AUTH", 0) /\ StoreAsBefore

C20_Witness ==
  /\ Connected
  /\ req.provider = "qwen_web"
  /\ obs.connect.observed
  /\ obs.connect.before # Null
  /\ obs.connect.err = NoError
  /\ obs.connect.connected
  /\ PolledIsStored

(***************************************************************************)
(* ensureCredential of the web-session providers, called on its own.       *)
(***************************************************************************)
\* an ensureKimiRefreshToken call from start to end
EnsureKimiRefreshToken(ioGet, tabOk, reads, ioSave, closeOk) ==
  /\ pc = "idle"
  /\ LET r == ensureKimiRefreshToken(kimi_tokens, ioGet, tabOk, reads, ioSave,
                                     closeOk, now)
         polled == pollRefreshToken(reads).refreshToken
     IN /\ kimi_tokens' = r.raw
        /\ obs' = [ObsIdle EXCEPT !.ensure =
                     [called |-> TRUE, readOk |-> ioGet,
                      tabOpened |-> r.tabOpened, tabActive |-> r.tabActive,
                      found |-> r.tabOpened /\ polled # <<>>,
                      polled |-> IF r.tabOpened THEN polled ELSE <<>>,
                      saveOk |-> ioSave,
                      closeTried |-> r.closeTried, closeOk |-> closeOk,
                      before |-> kimi_tokens, err |-> r.err, value |-> r.value]]
  /\ pc' = "delivered"
  /\ req' = [ReqIdle EXCEPT !.provider = "kimi_web", !.path = "ensure"]
  /\ UNCHANGED <<tokenState, rwa, qwen_tokens, now>>

\* an ensureQwenToken call from start to end
EnsureQwenToken(io) ==
  /\ pc = "idle"
  /\ LET r == ensureQwenToken(qwen_tokens, io)
     IN /\ qwen_tokens' = r.raw
        /\ obs' = [ObsIdle EXCEPT !.ensure =
                     [EnsureIdle EXCEPT !.called = TRUE, !.readOk = io,
                                        !.tabOpened = r.tabOpened,
                                        !.tabActive = r.tabActive,
                                        !.closeTried = r.closeTried,
                                        !.before = qwen_tokens,
                                        !.err = r.err, !.value = r.value]]
  /\ pc' = "delivered"
  /\ req' = [ReqIdle EXCEPT !.provider = "qwen_web", !.path = "ensure"]
  /\ UNCHANGED <<tokenState, rwa, kimi_tokens, now>>

\* kimiAuth.ts invalidateKimiTokens / qwenAuth.ts invalidateQwenTokens
InvalidateTokens(provider, io) ==
  /\ pc = "idle"
  /\ kimi_tokens' = IF provider = "kimi_web"
                    THEN clearKimiTokens(kimi_tokens, io).raw ELSE kimi_tokens
  /\ qwen_tokens' = IF provider = "qwen_web"
                    THEN clearQwenTokens(qwen_tokens, io).raw ELSE qwen_tokens
  /\ UNCHANGED <<pc, req, tokenState, rwa, obs, now>>

EnsureInit == Init

EnsureNext ==
  \/ \E ioGet \in BOOLEAN, tabOk \in BOOLEAN, reads \in KimiTabReads,
        ioSave \in BOOLEAN, closeOk \in BOOLEAN :
       EnsureKimiRefreshToken(ioGet, tabOk, reads, ioSave, closeOk) /\ UNCHANGED others
  \/ \E io \in BOOLEAN : EnsureQwenToken(io) /\ UNCHANGED others
  \/ \E tabOk \in BOOLEAN, reads \in QwenTabReads, ioSave \in BOOLEAN, ioGet \in BOOLEAN :
       ConnectQwenInteractive(tabOk, reads, ioSave, ioGet) /\ UNCHANGED others
  \/ \E provider \in {"kimi_web", "qwen_web"}, io \in BOOLEAN :
       InvalidateTokens(provider, io) /\ UNCHANGED others
  \/ Acknowledge /\ UNCHANGED others
  \/ pc = "idle" /\ Tick /\ UNCHANGED <<mergeVars, reqVars, localVars, textVars>>

\* ensureCredential calls of both providers, one after another, between
\* interactive connects and invalidations
SpecEnsure == EnsureInit /\ [][EnsureNext]_vars

(***************************************************************************)
(* Properties of ensureCredential.                                         *)
(***************************************************************************)
\* an ensureCredential call has returned or thrown
EnsureDone == obs.ensure.called

\* the credential stored when the call began
EnsureStoredBefore ==
  IF req.provider = "kimi_web" THEN sanitizeKimiTokens(obs.ensure.before)
  ELSE sanitizeQwenTokens(obs.ensure.before)

\* C21: ensureCredential of either web-session provider returns a stored
\* credential without opening a tab or writing the store; with none stored it
\* opens an inactive tab and polls it, persists and returns a credential
\* found there, and fails with AUTH only if nothing was found.  (Stated for
\* the calls in which the store can be read and written.)
C21_EnsureCredential ==
  EnsureDone /\ obs.ensure.readOk =>
    /\ EnsureStoredBefore # Null =>
         /\ obs.ensure.err = NoError
         /\ obs.ensure.value = EnsureStoredBefore
         /\ ~obs.ensure.tabOpened
         /\ RawOf(req.provider) = obs.ensure.before
    /\ EnsureStoredBefore = Null /\ obs.ensure.err.code # "RUNTIME" =>
         /\ obs.ensure.tabOpened /\ ~obs.ensure.tabActive
         /\ obs.ensure.found =>
              /\ obs.ensure.err = NoError
              /\ obs.ensure.value = StoredOf(req.provider)
              /\ obs.ensure.value.refreshToken = trim(obs.ensure.polled)
    /\ obs.ensure.err.code = "AUTH" => obs.ensure.tabOpened /\ ~obs.ensure.found

\* C22: on the Kimi path, whenever the hidden tab was opened an attempt to
\* close it was made before the call ended, and the outcome is the one the
\* poll and the store write alone determine, whether or not the close failed.
C22_CloseAttemptedResultUnaffected ==
  EnsureDone /\ req.provider = "kimi_web" /\ obs.ensure.tabOpened =>
    /\ obs.ensure.closeTried
    /\ obs.ensure.err =
         (IF ~obs.ensure.found THEN AppError("AUTH", 0)
          ELSE IF obs.ensure.saveOk THEN NoError ELSE StorageError)
    /\ obs.ensure.err = NoError =>
         /\ obs.ensure.value = StoredOf("kimi_web")
         /\ obs.ensure.value.refreshToken = trim(obs.ensure.polled)
    /\ obs.ensure.err # NoError =>
         obs.ensure.value = Null /\ kimi_tokens = obs.ensure.before

C22_Witness ==
  /\ EnsureDone
  /\ req.provider = "kimi_web"
  /\ obs.ensure.tabOpened
  /\ obs.ensure.closeTried
  /\ ~obs.ensure.closeOk
  /\ obs.ensure.err = NoError
  /\ obs.ensure.value # Null

(***************************************************************************)
(* The summary history driven by addSummaryRecord calls, one after         *)
(* another.                                                                *)
(***************************************************************************)
\* the records offered: one of the web-session provider, one of the REST
\* provider
HistoryRecords ==
  {[provider |-> "kimi_web", model |-> <<"kimi-web">>],
   [provider |-> "openai", model |-> <<"m">>]}

AddSummaryRecord(record, ioGet, ioSet) ==
  /\ pc = "idle"
  /\ LET r == addSummaryRecord(summary_history, record, ioGet, ioSet)
     IN /\ summary_history' = r.raw
        /\ obs' = [ObsIdle EXCEPT !.history =
                     [called |-> TRUE, record |-> record,
                      before |-> summary_history, err |-> r.err]]
  /\ UNCHANGED <<pc, req, tokenState, rwa, stored_settings, inflight, parseVars>>

HistoryInit == Init

HistoryNext ==
  \E record \in HistoryRecords, ioGet \in BOOLEAN, ioSet \in BOOLEAN :
    /\ AddSummaryRecord(record, ioGet, ioSet)
    /\ UNCHANGED <<storeVars, obsVars, mergeVars, textVars>>

SpecHistory == HistoryInit /\ [][HistoryNext]_vars

(***************************************************************************)
(* Properties of the summary history.                                      *)
(***************************************************************************)
\* the last addSummaryRecord call stored its record
Added == obs.history.called /\ obs.history.err = NoError

\* C23: the history never holds more than 10 records; after a call that
\* stored its record, that record is first, the records held before follow
\* in their former order, and only the records beyond the tenth are gone.
C23_HistoryBoundedNewestFirst ==
  /\ Len(summary_history) <= 10
  /\ Added =>
       /\ Len(summary_history) =
            (IF Len(obs.history.before) < 10 THEN Len(obs.history.before) + 1 ELSE 10)
       /\ summary_history[1] = obs.history.record
       /\ \A i \in 2..Len(summary_history) :
            summary_history[i] = obs.history.before[i - 1]
  /\ obs.history.called /\ ~Added => summary_history = obs.history.before

C23_Witness ==
  /\ Added
  /\ Len(obs.history.before) = 10
  /\ Len(summary_history) = 10
  /\ obs.history.before[1] # obs.history.record
  /\ obs.history.before[10] # obs.history.before[9]
  /\ summary_history[10] = obs.history.before[9]

(***************************************************************************)
(* Settings (storage.ts): sanitizeSettings, getSettings, saveSettings.     *)
(* A field of a raw value is a string, undefined, or (where the code tests *)
(* typeof) a value that is not a string; in the argument of saveSettings a *)
(* field may also be absent.                                               *)
(***************************************************************************)
CUSTOM_PROMPT_MAX_LENGTH == 2000

Str(v) == [t |-> "string", v |-> v]
Undefined == [t |-> "undefined"]
NotAString == [t |-> "number"]
Absent == [t |-> "absent"]

DEFAULT_SETTINGS ==
  [provider |-> "openai", apiBaseUrl |-> <<"https://api.openai.com">>,
   apiKey |-> <<>>, model |-> <<>>,
   summaryTemplateId |-> "short_2sent_3bullets",
   lastDefaultTemplateId |-> "short_2sent_3bullets",
   customSystemPrompt |-> <<>>, themePreference |-> "system"]

isProviderType(value) == value \in {"openai", "kimi_web"}
isDefaultTemplateId(value) == value \in DEFAULT_TEMPLATE_IDS
isSummaryTemplateId(value) == value = "custom" \/ isDefaultTemplateId(value)
isThemePreference(value) == value \in {"system", "light", "dark"}

\* value?.field of a raw value that may be undefined itself
fieldOf(value, field) ==
  IF value = Null \/ field \notin DOMAIN value THEN Undefined ELSE value[field]

\* a ?? b
orDefault(field, default) == IF field = Undefined THEN default ELSE field.v

normalizeCustomSystemPrompt_NoCap(prompt) == trim(orDefault(prompt, <<>>))

normalizeCustomSystemPrompt(prompt) ==
  LET input == trim(orDefault(prompt, <<>>))
  IN IF Len(input) > CUSTOM_PROMPT_MAX_LENGTH
     THEN slice(input, CUSTOM_PROMPT_MAX_LENGTH)
     ELSE input

resolveProvider(value) ==
  LET field == fieldOf(value, "provider")
      rawProvider == IF field.t = "string" THEN field.v ELSE DEFAULT_SETTINGS.provider
  IN IF isProviderType(rawProvider) THEN rawProvider ELSE DEFAULT_SETTINGS.provider

resolveSummaryTemplateId(value) ==
  LET field == fieldOf(value, "summaryTemplateId")
      legacySummaryFormat == fieldOf(value, "summaryFormat")
      rawTemplateId ==
        IF field.t = "string" THEN field.v
        ELSE IF legacySummaryFormat.t = "string" THEN legacySummaryFormat.v
        ELSE DEFAULT_SETTINGS.summaryTemplateId
  IN IF isSummaryTemplateId(rawTemplateId) THEN rawTemplateId
     ELSE DEFAULT_SETTINGS.summaryTemplateId

resolveLastDefaultTemplateId(value, summaryTemplateId) ==
  LET field == fieldOf(value, "lastDefaultTemplateId")
      rawLastDefaultTemplateId ==
        IF field.t = "string" THEN field.v
        ELSE IF isDefaultTemplateId(summaryTemplateId) THEN summaryTemplateId
        ELSE DEFAULT_SETTINGS.lastDefaultTemplateId
  IN IF isDefaultTemplateId(rawLastDefaultTemplateId) THEN rawLastDefaultTemplateId
     ELSE DEFAULT_SETTINGS.lastDefaultTemplateId

resolveThemePreference(value) ==
  LET field == fieldOf(value, "themePreference")
      rawThemePreference ==
        IF field.t = "string" THEN field.v ELSE DEFAULT_SETTINGS.themePreference
  IN IF isThemePreference(rawThemePreference) THEN rawThemePreference
     ELSE DEFAULT_SETTINGS.themePreference

sanitizeSettings(value) ==
  LET summaryTemplateId == resolveSummaryTemplateId(value)
  IN [provider |-> resolveProvider(value),
      apiBaseUrl |-> normalizeBaseUrl(orDefault(fieldOf(value, "apiBaseUrl"),
                                                DEFAULT_SETTINGS.apiBaseUrl)),
      apiKey |-> trim(orDefault(fieldOf(value, "apiKey"), DEFAULT_SETTINGS.apiKey)),
      model |-> trim(orDefault(fieldOf(value, "model"), DEFAULT_SETTINGS.model)),
      summaryTemplateId |-> summaryTemplateId,
      lastDefaultTemplateId |-> resolveLastDefaultTemplateId(value, summaryTemplateId),
      customSystemPrompt |->
        normalizeCustomSystemPrompt(fieldOf(value, "customSystemPrompt")),
      themePreference |-> resolveThemePreference(value)]

SettingsFields ==
  {"provider", "apiBaseUrl", "apiKey", "model", "summaryTemplateId",
   "lastDefaultTemplateId", "customSystemPrompt", "themePreference"}

\* the stored form of a Settings value: every field a string
storedForm(value) == [f \in SettingsFields |-> Str(value[f])]

\* { ...current, ...next }: a field present in next replaces the current one
spread(current, next) ==
  [f \in SettingsFields |->
     IF next[f] = Absent THEN storedForm(current)[f] ELSE next[f]]

getSettings(raw, io) ==
  IF io THEN [raw |-> raw, err |-> NoError, value |-> sanitizeSettings(raw)]
  ELSE [raw |-> raw, err |-> StorageError, value |-> Null]

saveSettings(raw, next, ioGet, ioSet) ==
  LET current == getSettings(raw, ioGet)
      merged == sanitizeSettings(spread(current.value, next))
  IN IF current.err # NoError THEN [raw |-> raw, err |-> current.err, value |-> Null]
     ELSE IF ioSet THEN [raw |-> storedForm(merged), err |-> NoError, value |-> merged]
     ELSE [raw |-> raw, err |-> StorageError, value |-> Null]

(***************************************************************************)
(* The stored settings driven by getSettings and saveSettings calls.       *)
(***************************************************************************)
\* a prompt of n characters "a"
Repeat(c, n) == [i \in 1..n |-> c]

\* prompts around the cap of 2000 characters
PromptInputs ==
  {<<>>, <<" ", "a", " ">>, Repeat("a", CUSTOM_PROMPT_MAX_LENGTH),
   <<" ">> \o Repeat("a", CUSTOM_PROMPT_MAX_LENGTH + 1),
   Repeat("a", CUSTOM_PROMPT_MAX_LENGTH - 1) \o <<" ", "a">>}

\* an argument of saveSettings with no field present
NoFields == [f \in SettingsFields |-> Absent]

\* the arguments of saveSettings: the provider alone, the two template ids,
\* the custom prompt alone, the theme and the endpoint, and a whole form
PartialSettings ==
  {[NoFields EXCEPT !.provider = v] :
     v \in {Undefined, NotAString, Str("openai"), Str("kimi_web"), Str("bogus")}}
  \cup {[NoFields EXCEPT !.summaryTemplateId = v, !.lastDefaultTemplateId = w] :
          v \in {Absent, NotAString, Str("custom"), Str("detailed_chapter"), Str("bogus")},
          w \in {Absent, Undefined, Str("detailed_bg_terms"), Str("custom")}}
  \cup {[NoFields EXCEPT !.customSystemPrompt = v] :
          v \in {Undefined} \cup {Str(q) : q \in PromptInputs}}
  \cup {[NoFields EXCEPT !.themePreference = v, !.apiBaseUrl = w] :
          v \in {Absent, Str("dark"), Str("bogus")}, w \in {Absent, Str(<<"u", "/">>)}}
  \cup {[provider |-> Str("kimi_web"), apiBaseUrl |-> Str(<<"u">>),
         apiKey |-> Str(<<" ", "k">>), model |-> Str(<<"m", " ">>),
         summaryTemplateId |-> Str("custom"),
         lastDefaultTemplateId |-> Str("detailed_fact_opinion"),
         customSystemPrompt |-> Str(<<"a">>), themePreference |-> Str("light")]}

\* what an earlier version of the extension may have left under the key
LegacySettings ==
  {Null,
   [summaryFormat |-> Str("detailed_chapter")],
   [summaryFormat |-> Str("tldr_5_bullets"), lastDefaultTemplateId |-> Str("tldr_5_bullets"),
    customSystemPrompt |-> Str(<<" ">> \o Repeat("a", CUSTOM_PROMPT_MAX_LENGTH + 1))],
   [summaryTemplateId |-> Str("custom"), provider |-> NotAString,
    themePreference |-> NotAString]}

GetSettings(io) ==
  /\ pc = "idle"
  /\ LET r == getSettings(stored_settings, io)
     IN obs' = [ObsIdle EXCEPT !.settingsOp =
                  [op |-> "get", value |-> r.value, err |-> r.err]]
  /\ UNCHANGED <<pc, req, tokenState, rwa, localVars>>

SaveSettings(next, ioGet, ioSet) ==
  /\ pc = "idle"
  /\ LET r == saveSettings(stored_settings, next, ioGet, ioSet)
     IN /\ stored_settings' = r.raw
        /\ obs' = [ObsIdle EXCEPT !.settingsOp =
                     [op |-> "save", value |-> r.value, err |-> r.err]]
  /\ UNCHANGED <<pc, req, tokenState, rwa, summary_history, inflight, parseVars>>

SettingsInit ==
  /\ InitStore
  /\ InitMergeIdle
  /\ InitReqIdle
  /\ InitTextIdle
  /\ summary_history = <<>>
  /\ inflight = [p \in Panels |-> HandlerIdle]
  /\ InitParseIdle
  /\ stored_settings \in LegacySettings

SettingsNext ==
  \/ \E io \in BOOLEAN :
       GetSettings(io) /\ UNCHANGED <<storeVars, obsVars, mergeVars, textVars>>
  \/ \E next \in PartialSettings, ioGet \in BOOLEAN, ioSet \in BOOLEAN :
       SaveSettings(next, ioGet, ioSet) /\ UNCHANGED <<storeVars, obsVars, mergeVars, textVars>>

SpecSettings == SettingsInit /\ [][SettingsNext]_vars

(***************************************************************************)
(* Properties of the settings.                                             *)
(***************************************************************************)
\* a getSettings or saveSettings call returned a Settings value
SettingsReturned == obs.settingsOp.op # "none" /\ obs.settingsOp.err = NoError

\* C24: the Settings value returned by getSettings or saveSettings has a
\* provider of the provider enum, a custom prompt of at most 2000
\* characters, a template id of the template set and a built-in last
\* default template id.
C24_SettingsWellFormed ==
  SettingsReturned =>
    /\ obs.settingsOp.value.provider \in {"openai", "kimi_web"}
    /\ Len(obs.settingsOp.value.customSystemPrompt) <= 2000
    /\ obs.settingsOp.value.summaryTemplateId \in
         {"short_2sent_3bullets", "detailed_bg_terms", "detailed_chapter",
          "detailed_fact_opinion", "custom"}
    /\ obs.settingsOp.value.lastDefaultTemplateId \in
         {"short_2sent_3bullets", "detailed_bg_terms", "detailed_chapter",
          "detailed_fact_opinion"}

C24_Witness ==
  /\ SettingsReturned
  /\ obs.settingsOp.op = "save"
  /\ obs.settingsOp.value.provider = "kimi_web"
  /\ Len(obs.settingsOp.value.customSystemPrompt) = 2000
  /\ obs.settingsOp.value.summaryTemplateId = "custom"
  /\ obs.settingsOp.value.lastDefaultTemplateId = "detailed_bg_terms"
  /\ stored_settings = storedForm(obs.settingsOp.value)

(***************************************************************************)
(* The background process serving the side panels (background/index.ts).   *)
(* The onMessage listener starts handleMessage for every message as it     *)
(* arrives and returns; each handleMessage call then runs from one await   *)
(* to the next.  A side panel disables its button while its own request is *)
(* pending, so it has at most one request in flight.                       *)
(***************************************************************************)
HandlerProviders == {"openai", "kimi_web"}

\* what the provider call of summarizeActiveTab ends with
HandlerOutcomes == {NoError, AppError("AUTH", 0), AppError("HTTP", 500)}

\* the handler of panel p moves to `next`
handlerStep(p, next) == inflight' = [inflight EXCEPT ![p] = next]

\* the listener receives SUMMARIZE_ACTIVE_TAB from panel p and calls
\* handleMessage, which runs summarizeActiveTab up to its first await
ReceiveSummarize(p, provider) ==
  /\ inflight[p].pc = "idle"
  /\ Len(summary_history) < MaxRecorded
  /\ handlerStep(p, [HandlerIdle EXCEPT !.pc = "prepare", !.provider = provider])
  /\ UNCHANGED <<kimi_tokens, summary_history>>

\* getActiveTab, the restricted URL check, extractPageContent
HandlerPrepare(p, result) ==
  /\ inflight[p].pc = "prepare"
  /\ handlerStep(p, IF result # "ok"
                    THEN [inflight[p] EXCEPT !.pc = "respond", !.err = AppError(result, 0)]
                    ELSE [inflight[p] EXCEPT !.pc =
                            IF inflight[p].provider = "kimi_web" THEN "credential"
                            ELSE "upstream"])
  /\ UNCHANGED <<kimi_tokens, summary_history>>

\* summarizeWithKimi: ensureKimiRefreshToken reads (or captures and writes)
\* the credential
HandlerCredential(p, ioGet, tabOk, reads, ioSave, closeOk) ==
  /\ inflight[p].pc = "credential"
  /\ LET r == ensureKimiRefreshToken(kimi_tokens, ioGet, tabOk, reads, ioSave,
                                     closeOk, now)
     IN /\ kimi_tokens' = r.raw
        /\ handlerStep(p, IF r.err # NoError
                          THEN [inflight[p] EXCEPT !.pc = "caught", !.err = r.err]
                          ELSE [inflight[p] EXCEPT !.pc = "upstream", !.tokens = r.value])
  /\ UNCHANGED summary_history

\* the upstream calls of the provider end with a summary or an error
HandlerUpstream(p, outcome) ==
  /\ inflight[p].pc = "upstream"
  /\ handlerStep(p, IF outcome = NoError
                    THEN [inflight[p] EXCEPT !.pc = "historyRead"]
                    ELSE [inflight[p] EXCEPT
                            !.pc = IF inflight[p].provider = "kimi_web"
                                   THEN "caught" ELSE "respond",
                            !.err = outcome])
  /\ UNCHANGED <<kimi_tokens, summary_history>>

\* the catch block of the kimi_web branch: invalidateKimiTokens on AUTH
HandlerCatch(p, io) ==
  /\ inflight[p].pc = "caught"
  /\ kimi_tokens' = IF isAuthAppError(inflight[p].err)
                    THEN clearKimiTokens(kimi_tokens, io).raw ELSE kimi_tokens
  /\ handlerStep(p, [inflight[p] EXCEPT !.pc = "respond"])
  /\ UNCHANGED summary_history

\* addSummaryRecord: await getSummaryHistory()
HandlerHistoryRead(p, io) ==
  /\ inflight[p].pc = "historyRead"
  /\ LET current == getSummaryHistory(summary_history, io)
     IN handlerStep(p, IF current.err # NoError
                       THEN [inflight[p] EXCEPT !.pc = "respond", !.err = current.err]
                       ELSE [inflight[p] EXCEPT !.pc = "historyWrite",
                                                !.current = current.value])
  /\ UNCHANGED <<kimi_tokens, summary_history>>

\* addSummaryRecord: await storageSet of the record and the history read;
\* the record's id (crypto.randomUUID()) is told apart by the request it
\* belongs to
HandlerHistoryWrite(p, io) ==
  /\ inflight[p].pc = "historyWrite"
  /\ LET tagged == summaryRecordOf(inflight[p].provider, <<"m">>)
         record == [id |-> p, provider |-> tagged.provider, model |-> tagged.model]
     IN summary_history' =
          IF io THEN slice(<<record>> \o inflight[p].current, MAX_HISTORY_RECORDS)
          ELSE summary_history
  /\ handlerStep(p, [inflight[p] EXCEPT !.pc = "respond",
                                        !.err = IF io THEN NoError ELSE StorageError])
  /\ UNCHANGED kimi_tokens

\* sendResponse, in the then / catch of the listener
HandlerRespond(p) ==
  /\ inflight[p].pc = "respond"
  /\ handlerStep(p, HandlerIdle)
  /\ UNCHANGED <<kimi_tokens, summary_history>>

\* what the handlers leave alone
handlerFrame ==
  UNCHANGED <<qwen_tokens, now, obsVars, mergeVars, reqVars, textVars, stored_settings,
              parseVars>>

ConcurrentInit ==
  /\ InitStore
  /\ InitMergeIdle
  /\ InitReqIdle
  /\ InitTextIdle
  /\ InitLocalIdle

ConcurrentNext ==
  \/ \E p \in Panels, provider \in HandlerProviders :
       ReceiveSummarize(p, provider) /\ handlerFrame
  \/ \E p \in Panels, result \in {"ok", "VALIDATION"} :
       HandlerPrepare(p, result) /\ handlerFrame
  \/ \E p \in Panels, ioGet \in BOOLEAN, tabOk \in BOOLEAN, reads \in KimiTabReads,
        ioSave \in BOOLEAN, closeOk \in BOOLEAN :
       HandlerCredential(p, ioGet, tabOk, reads, ioSave, closeOk) /\ handlerFrame
  \/ \E p \in Panels, outcome \in HandlerOutcomes :
       HandlerUpstream(p, outcome) /\ handlerFrame
  \/ \E p \in Panels, io \in BOOLEAN : HandlerCatch(p, io) /\ handlerFrame
  \/ \E p \in Panels, io \in BOOLEAN : HandlerHistoryRead(p, io) /\ handlerFrame
  \/ \E p \in Panels, io \in BOOLEAN : HandlerHistoryWrite(p, io) /\ handlerFrame
  \/ \E p \in Panels : HandlerRespond(p) /\ handlerFrame

SpecConcurrent == ConcurrentInit /\ [][ConcurrentNext]_vars

\* the requests being handled: received, response not yet sent
InFlight == {p \in Panels : inflight[p].pc # "idle"}

\* C25: while one summarization request is being handled no other one is:
\* at most one handleMessage call is between its start and its response.
C25_RequestsSerialized == Cardinality(InFlight) <= 1

\* the handler of panel p has completed summarizeActiveTab with a summary
\* and is about to send the successful response
Succeeded(p) == inflight[p].pc = "respond" /\ inflight[p].err = NoError

\* the stored history holds the record of panel p's request
Recorded(p) == \E k \in 1..Len(summary_history) : summary_history[k].id = p

\* C32: when two overlapping requests have both completed successfully, the
\* stored history holds the record of each: addSummaryRecord loses no record
C32_NoRecordLost ==
  (\A p \in Panels : Succeeded(p)) => (\A p \in Panels : Recorded(p))

(***************************************************************************)
(* A streamed send with the request timer of fetchWithTimeout.  The timer  *)
(* is armed before fetch is called and cleared in the finally block, when  *)
(* fetch has settled; the response it resolves with is the head of the     *)
(* response, the body is read afterwards by collectStreamContent.          *)
(***************************************************************************)
\* fetchWithTimeout: setTimeout(() => controller.abort(), REQUEST_TIMEOUT_MS),
\* then fetch is called
FetchBegins(transport, prompt) ==
  /\ stream.phase = "idle"
  /\ stream' = [StreamIdle EXCEPT !.phase = "fetching", !.transport = transport,
                                  !.prompt = prompt, !.endpointIdx = 1,
                                  !.timer = "armed"]

\* fetch resolves with a 2xx response that has a body; the finally block
\* clears the timer and collectStreamContent takes the reader
FetchResolves ==
  /\ stream.phase = "fetching"
  /\ stream.timer = "armed"
  /\ stream' = [stream EXCEPT !.phase = "reading", !.timer = "cleared"]

\* fetch rejects with a transport error
FetchRejects ==
  /\ stream.phase = "fetching"
  /\ stream.timer = "armed"
  /\ stream' = [stream EXCEPT !.phase = "done", !.timer = "cleared",
                              !.result = SendResult("throw", <<>>, AppError("NETWORK", 0))]

\* the timer fires: controller.abort() makes the pending fetch reject with an
\* AbortError, which fetchWithTimeout turns into TIMEOUT
TimeoutFires ==
  /\ stream.timer = "armed"
  /\ stream' = [stream EXCEPT !.phase = "done", !.timer = "fired",
                              !.result = SendResult("throw", <<>>, AppError("TIMEOUT", 0))]

TimedNext ==
  /\ \/ \E transport \in {"kimi", "qwen"}, prompt \in StreamPrompts :
          FetchBegins(transport, prompt)
     \/ FetchResolves
     \/ FetchRejects
     \/ TimeoutFires
     \/ \E piece \in StreamPieces : ReceivePiece(piece)
     \/ EndOfStream
  /\ UNCHANGED <<storeVars, obsVars, mergeVars, reqVars, localVars, md, tpl>>

\* the timer callback runs once its delay has passed; nothing obliges the
\* provider to respond, to send data or to end the stream
TimedFairness == WF_vars(TimeoutFires /\ UNCHANGED <<storeVars, obsVars, mergeVars, reqVars, localVars, md, tpl>>)

SpecTimed == StreamInit /\ [][TimedNext]_vars /\ TimedFairness

\* C26: a send that has begun ends with a summary or an error, whatever the
\* provider does.
C26_SendCompletes == (stream.phase = "fetching") ~> (stream.result # NoResult)

(***************************************************************************)
(* The key-based REST transport (openai.ts) called on its own.             *)
(***************************************************************************)
FetchModels(input, fetched, body) ==
  /\ pc = "idle"
  /\ LET sent == normalizeBaseUrl(input.apiBaseUrl) # <<>> /\ trim(input.apiKey) # <<>>
     IN obs' = [ObsIdle EXCEPT !.restCall =
                  [op |-> "fetchModels", input |-> input, sent |-> sent,
                   fetched |-> IF sent THEN fetched ELSE RestCallIdle.fetched,
                   body |-> IF sent /\ fetched.thrown = "none" /\ responseOk(fetched.status)
                            THEN body ELSE "none",
                   err |-> fetchModels(input, fetched, body)]]
  /\ UNCHANGED <<pc, req, tokenState, rwa>>

SummarizePage(input, fetched, body) ==
  /\ pc = "idle"
  /\ LET sent == normalizeBaseUrl(input.apiBaseUrl) # <<>> /\ trim(input.apiKey) # <<>>
                   /\ trim(input.model) # <<>>
     IN obs' = [ObsIdle EXCEPT !.restCall =
                  [op |-> "summarizePage", input |-> input, sent |-> sent,
                   fetched |-> IF sent THEN fetched ELSE RestCallIdle.fetched,
                   body |-> IF sent /\ fetched.thrown = "none" /\ responseOk(fetched.status)
                            THEN body ELSE "none",
                   err |-> summarizePage(input, fetched, body)]]
  /\ UNCHANGED <<pc, req, tokenState, rwa>>

\* the endpoint, key and model offered to the REST transport
RestInputs ==
  [apiBaseUrl : {<<"/">>, <<"u", "/">>, <<" ", "u">>},
   apiKey : {<<" ">>, <<"k">>, <<"k", " ">>}, model : {<<>>, <<"m">>}]

\* what fetch yields for the REST provider: a response with a status, or a
\* thrown abort / transport error
RestFetchResults ==
  [thrown : {"none"}, status : {200, 201, 204, 301, 400, 401, 403, 404, 429, 500, 503}]
    \cup [thrown : {"TIMEOUT", "NETWORK"}, status : {0}]

RestInit == Init

RestNext ==
  \/ \E input \in RestInputs, fetched \in RestFetchResults, body \in ModelListBodies :
       /\ FetchModels(input, fetched, body)
       /\ UNCHANGED <<storeVars, obsVars, mergeVars, textVars, localVars>>
  \/ \E input \in RestInputs, fetched \in RestFetchResults, body \in RestBodies :
       /\ SummarizePage(input, fetched, body)
       /\ UNCHANGED <<storeVars, obsVars, mergeVars, textVars, localVars>>

SpecRest == RestInit /\ [][RestNext]_vars

\* a fetchModels or summarizePage call has failed
RestFailed == obs.restCall.op # "none" /\ obs.restCall.err # NoError

\* C27: every failure of fetchModels and summarizePage is an AppError of the
\* closed set of codes: TIMEOUT for an abort, NETWORK for any other error
\* thrown by fetch, HTTP with the status for a non-2xx response, and one of
\* the codes for a 2xx response whose body cannot be used.
C27_RestFailuresAreAppErrors ==
  RestFailed =>
    /\ obs.restCall.err.code \in
         {"HTTP", "AUTH", "TIMEOUT", "NETWORK", "VALIDATION", "RUNTIME", "UNKNOWN"}
    /\ obs.restCall.sent /\ obs.restCall.fetched.thrown = "TIMEOUT" =>
         obs.restCall.err.code = "TIMEOUT"
    /\ obs.restCall.sent /\ obs.restCall.fetched.thrown = "NETWORK" =>
         obs.restCall.err.code = "NETWORK"
    /\ obs.restCall.sent /\ obs.restCall.fetched.thrown = "none"
         /\ ~(obs.restCall.fetched.status \in 200..299) =>
         obs.restCall.err = [code |-> "HTTP", status |-> obs.restCall.fetched.status]

(***************************************************************************)
(* No fallback from the Kimi web session to the key-based transport.       *)
(***************************************************************************)
\* C28: while a request with provider kimi_web is handled, summarizePage
\* (the key-based transport) is never invoked, and once the response is
\* delivered a failure of the Kimi transport is a failure of the request
C28_NoFallbackToKeyTransport ==
  req.provider = "kimi_web" =>
    /\ ~obs.rest.invoked
    /\ (pc = "delivered" /\ Failed(obs.kimiResult)) => Failed(obs.delivered)

\* a kimi_web request whose file path failed and whose text fallback failed
\* as well has been answered with the failure
C28_Witness ==
  /\ req.provider = "kimi_web"
  /\ pc = "delivered"
  /\ Failed(obs.fileErr)
  /\ Failed(obs.textOutcome)
  /\ Failed(obs.delivered)

(***************************************************************************)
(* The history write of summarizeActiveTab.                                *)
(***************************************************************************)
\* the label a record of the request in hand must carry
expectedModelLabel ==
  IF req.provider = "kimi_web" THEN KIMI_MODEL_NAME ELSE req.model

\* C29: a SUMMARIZE_ACTIVE_TAB request leaves the stored history as it found it until it has a
\* summary; a request answered with a failure leaves it unchanged; a request
\* answered with a summary has put exactly one record in front of it, tagged
\* with settings.provider and labelled with the web-session label for
\* kimi_web and with settings.model for the key-based provider
C29_OneRecordPerSuccess ==
  (pc # "idle" /\ req.provider \in {"kimi_web", "openai"}) =>
    /\ pc # "delivered" => summary_history = obs.history.before /\ ~obs.history.called
    /\ (pc = "delivered" /\ Failed(obs.delivered)) =>
         summary_history = obs.history.before
    /\ (pc = "delivered" /\ obs.delivered = NoError) =>
         /\ obs.history.called
         /\ Len(summary_history) = Len(obs.history.before) + 1
         /\ Tail(summary_history) = obs.history.before
         /\ Head(summary_history).provider = req.provider
         /\ Head(summary_history).model = expectedModelLabel

\* a kimi_web request whose settings.model names a key-based model has been
\* answered with a summary and its record carries the web-session label
C29_Witness ==
  /\ pc = "delivered"
  /\ req.provider = "kimi_web"
  /\ req.model # KIMI_MODEL_NAME
  /\ obs.delivered = NoError
  /\ summary_history # <<>>
  /\ Head(summary_history) = [provider |-> "kimi_web", model |-> KIMI_MODEL_NAME]

\* a request of the key-based provider was answered with a failure after a
\* summary had been produced (the history write failed)
C29_FailedAfterSummary ==
  /\ pc = "delivered"
  /\ obs.history.called
  /\ Failed(obs.delivered)

(***************************************************************************)
(* Stream merge when the accumulated text already contains the chunk.      *)
(***************************************************************************)
\* the chunk occurs in the accumulated text, but neither at its start nor
\* at its end
containedInsideOnly(text, chunk) ==
  /\ chunk # <<>>
  /\ includes(text, chunk)
  /\ ~startsWith(text, chunk)
  /\ ~endsWith(text, chunk)

\* C30 as stated: whenever the accumulated text T contains the chunk X,
\* wherever X occurs in T, mergeStreamChunk(T, X) = T
C30_MergeKeepsContained ==
  (mergeDone /\ includes(mergeCurrent, mergeNext)) => mergeResult = mergeCurrent

\* C30, amended: when T contains X, mergeStreamChunk(T, X) = T exactly when X
\* is empty, a prefix of T or a suffix of T; an X that occurs only inside T
\* is appended to T without its longest prefix that is a suffix of T
C30_MergeKeepsPrefixOrSuffix ==
  (mergeDone /\ includes(mergeCurrent, mergeNext)) =>
    IF containedInsideOnly(mergeCurrent, mergeNext)
    THEN /\ mergeResult # mergeCurrent
         /\ mergeResult =
              mergeCurrent \o SubSeq(mergeNext,
                                     findOverlapSuffixPrefix(mergeCurrent, mergeNext) + 1,
                                     Len(mergeNext))
    ELSE mergeResult = mergeCurrent

\* a chunk that occurs only inside the accumulated text was merged
C30_Witness ==
  /\ mergeDone
  /\ containedInsideOnly(mergeCurrent, mergeNext)
  /\ Len(mergeResult) > Len(mergeCurrent)

(***************************************************************************)
(* The credential carried by the calls of one summarizeWithKimi request.   *)
(***************************************************************************)
\* a call to the backend is made: the upstream call of requestWithAuth or
\* the call of refreshAccessToken to the token-refresh endpoint
BackendCall ==
  /\ req.provider = "kimi_web"
  /\ \/ rwa'.upstreamCalls = rwa.upstreamCalls + 1
     \/ rwa'.refreshCalls = rwa.refreshCalls + 1

\* C31: during one summarizeWithKimi request every upstream call and every
\* refresh call carries the credential last reported through onTokens (the
\* ensured one before any report), also when sendMessageStream has moved on
\* to its next candidate path
C31_LatestCredentialSent ==
  [][BackendCall =>
       /\ rwa.currentTokens.accessToken = tokenState.accessToken
       /\ rwa.currentTokens.refreshToken = tokenState.refreshToken]_vars

(***************************************************************************)
(* collectStreamContent reading the response body (kimi.ts, qwen.ts).  The *)
(* body is a sequence of characters; a line prefix ("event:", "data:"),    *)
(* an event word, the [DONE] marker and the code of an unauthorized        *)
(* payload are one character each.  A JSON payload is "{", its text, "}".  *)
(***************************************************************************)
MaxSseLines == 3

\* JSON.parse accepts the payload text
validJson(payloadText) ==
  /\ Len(payloadText) >= 2
  /\ payloadText[1] = "{"
  /\ payloadText[Len(payloadText)] = "}"
  /\ \A k \in 2..(Len(payloadText) - 1) : payloadText[k] \notin {"{", "}"}

\* the characters between the braces of a payload
jsonBody(payloadText) == SubSeq(payloadText, 2, Len(payloadText) - 1)

\* extractStreamPiece(payload, currentEventName) for a parsed payload, which
\* carries neither a role nor an event field of its own
extractStreamPiece(payloadText, sseEventName) ==
  [kind |-> "json",
   text |-> IF jsonBody(payloadText) = <<"unauthorized">> THEN <<>>
            ELSE jsonBody(payloadText),
   role |-> "",
   event |-> trim(sseEventName),
   code |-> IF jsonBody(payloadText) = <<"unauthorized">> THEN <<"unauthorized">>
            ELSE <<>>,
   detail |-> <<>>]

\* the locals of collectStreamContent that a line can change
SseLocals(st) ==
  [currentEventName |-> st.currentEventName, allText |-> st.allText,
   assistantText |-> st.assistantText, err |-> st.err]

sseDataLine_MalformedAborts(transport, st, line) ==
  LET payloadText == trim(sliceFrom(line, 2))
      chunk == extractStreamPiece(payloadText, st.currentEventName)
  IN IF payloadText = <<>> \/ payloadText = <<"[DONE]">> THEN st
     ELSE IF ~validJson(payloadText) THEN [st EXCEPT !.err = AppError("RUNTIME", 0)]
     ELSE IF unauthorizedInStream(transport, chunk)
     THEN [st EXCEPT !.err = ensureAuthError(401)]
     ELSE IF chunk.text = <<>> THEN st
     ELSE [st EXCEPT
             !.allText = mergeStreamChunk(@, chunk.text),
             !.assistantText = IF shouldUseAsAssistantChunk(chunk)
                               THEN mergeStreamChunk(@, chunk.text)
                               ELSE @]

\* a "data:" line (already trimmed), in the loop or as the tail: [DONE], an
\* empty payload and a payload JSON.parse rejects are skipped
sseDataLine(transport, st, line) ==
  LET payloadText == trim(sliceFrom(line, 2))
      chunk == extractStreamPiece(payloadText, st.currentEventName)
  IN IF payloadText = <<>> \/ payloadText = <<"[DONE]">> THEN st
     ELSE IF ~validJson(payloadText) THEN st
     ELSE IF unauthorizedInStream(transport, chunk)
     THEN [st EXCEPT !.err = ensureAuthError(401)]
     ELSE IF chunk.text = <<>> THEN st
     ELSE [st EXCEPT
             !.allText = mergeStreamChunk(@, chunk.text),
             !.assistantText = IF shouldUseAsAssistantChunk(chunk)
                               THEN mergeStreamChunk(@, chunk.text)
                               ELSE @]

sseLine_DoneResetsEvent(transport, st, rawLine) ==
  LET line == trim(rawLine)
  IN IF line = <<>> THEN [st EXCEPT !.currentEventName = <<>>]
     ELSE IF startsWith(line, <<"event:">>)
     THEN [st EXCEPT !.currentEventName = trim(sliceFrom(line, 2))]
     ELSE IF ~startsWith(line, <<"data:">>) THEN st
     ELSE IF trim(sliceFrom(line, 2)) = <<"[DONE]">>
     THEN [st EXCEPT !.currentEventName = <<>>]
     ELSE sseDataLine(transport, st, line)

\* the body of `for (const rawLine of lines)`
sseLine(transport, st, rawLine) ==
  LET line == trim(rawLine)
  IN IF line = <<>> THEN [st EXCEPT !.currentEventName = <<>>]
     ELSE IF startsWith(line, <<"event:">>)
     THEN [st EXCEPT !.currentEventName = trim(sliceFrom(line, 2))]
     ELSE IF ~startsWith(line, <<"data:">>) THEN st
     ELSE sseDataLine(transport, st, line)

\* the for loop over the complete lines; a throw ends it
RECURSIVE sseLines(_, _, _)
sseLines(transport, st, lines) ==
  IF lines = <<>> \/ st.err # NoError THEN st
  ELSE sseLines(transport, sseLine(transport, st, Head(lines)), Tail(lines))

\* after the loop: the unterminated tail is processed when it is a "data:" line
sseTail(transport, st, buffer) ==
  LET tail == trim(buffer)
  IN IF startsWith(tail, <<"data:">>) THEN sseDataLine(transport, st, tail) ELSE st

\* one pass of the while loop for the decoded text of a read: the text is
\* appended to the buffer, the complete lines are processed, the last
\* segment stays in the buffer
sseRead_DropPartial(transport, st, text) ==
  LET lines == split(st.buffer \o text, LF)
      after == sseLines(transport, SseLocals(st), SubSeq(lines, 1, Len(lines) - 1))
  IN [st EXCEPT !.buffer = <<>>,
                !.currentEventName = after.currentEventName,
                !.allText = after.allText,
                !.assistantText = after.assistantText,
                !.err = after.err]

sseRead(transport, st, text) ==
  LET lines == split(st.buffer \o text, LF)
      after == sseLines(transport, SseLocals(st), SubSeq(lines, 1, Len(lines) - 1))
  IN [st EXCEPT !.buffer = lines[Len(lines)],
                !.currentEventName = after.currentEventName,
                !.allText = after.allText,
                !.assistantText = after.assistantText,
                !.err = after.err]

\* the lines the backend can send
SseLineShapes ==
  { <<>>,
    <<"event:", " ", "cmpl">>,
    <<"data:", " ", "{", "a", "}">>,
    <<"data:", "{", "b", "}">>,
    <<"data:", "{", "a">>,
    <<"data:", " ", "[DONE]">>,
    <<"data:", "{", "unauthorized", "}">> }

RECURSIVE joinLines(_)
joinLines(lines) ==
  IF lines = <<>> THEN <<>>
  ELSE IF Len(lines) = 1 THEN lines[1]
  ELSE lines[1] \o <<LF>> \o joinLines(Tail(lines))

\* the bodies the backend can send: up to MaxSseLines lines, the last one
\* with or without its newline
SseBodies ==
  LET lineSeqs == UNION {[1..n -> SseLineShapes] : n \in 1..MaxSseLines}
  IN {joinLines(ls) : ls \in lineSeqs} \cup {joinLines(ls) \o <<LF>> : ls \in lineSeqs}

\* a 2xx response with a body arrives
SseOpen(transport, body) ==
  /\ sse.phase = "idle"
  /\ sse' = [SseIdle EXCEPT !.phase = "reading", !.transport = transport,
                            !.body = body]

\* reader.read() resolves with the next n characters of the body
SseRead(n) ==
  /\ sse.phase = "reading"
  /\ sse.pos + n <= Len(sse.body)
  /\ LET text == SubSeq(sse.body, sse.pos + 1, sse.pos + n)
         after == sseRead(sse.transport, sse, text)
     IN sse' = [after EXCEPT !.pos = sse.pos + n,
                             !.splitLine = @ \/ (sse.pos + n < Len(sse.body)
                                                 /\ sse.body[sse.pos + n] # LF),
                             !.phase = IF after.err # NoError THEN "failed" ELSE @]

\* reader.read() reports done: the last pass of the loop with no new text,
\* then the tail
SseDone ==
  /\ sse.phase = "reading"
  /\ sse.pos = Len(sse.body)
  /\ LET looped == sseRead(sse.transport, sse, <<>>)
         locals == sseTail(sse.transport, SseLocals(looped), looped.buffer)
     IN sse' = [looped EXCEPT !.currentEventName = locals.currentEventName,
                              !.allText = locals.allText,
                              !.assistantText = locals.assistantText,
                              !.err = locals.err,
                              !.phase = IF locals.err # NoError THEN "failed" ELSE "done"]

SseInit == Init

SseNext ==
  /\ \/ \E transport \in {"kimi", "qwen"}, body \in SseBodies : SseOpen(transport, body)
     \/ \E n \in 1..(MaxSseLines * 6) : SseRead(n)
     \/ SseDone
  /\ UNCHANGED <<storeVars, obsVars, mergeVars, reqVars, textVars, summary_history,
                 stored_settings, inflight, classified, echo>>

SpecSse == SseInit /\ [][SseNext]_vars

(***************************************************************************)
(* Properties of the event-stream reader.                                  *)
(***************************************************************************)
\* the complete lines among the characters read so far
sseDoneLines ==
  LET segments == split(SubSeq(sse.body, 1, sse.pos), LF)
  IN SubSeq(segments, 1, Len(segments) - 1)

isBlankLine(rawLine) == trim(rawLine) = <<>>
isEventLine(rawLine) == startsWith(trim(rawLine), <<"event:">>)
isDoneLine(rawLine) ==
  /\ startsWith(trim(rawLine), <<"data:">>)
  /\ trim(sliceFrom(trim(rawLine), 2)) = <<"[DONE]">>

\* the event name in force after `lines`: the name of the last "event:" line
\* unless a blank line came after it
eventNameAfter(lines) ==
  LET marks == {k \in 1..Len(lines) : isBlankLine(lines[k]) \/ isEventLine(lines[k])}
  IN IF marks = {} THEN <<>>
     ELSE LET last == CHOOSE k \in marks : \A j \in marks : j <= k
          IN IF isBlankLine(lines[last]) THEN <<>>
             ELSE trim(sliceFrom(trim(lines[last]), 2))

\* the lines without the "data: [DONE]" lines
RECURSIVE withoutDoneLines(_)
withoutDoneLines(lines) ==
  IF lines = <<>> THEN <<>>
  ELSE IF isDoneLine(Head(lines)) THEN withoutDoneLines(Tail(lines))
  ELSE <<Head(lines)>> \o withoutDoneLines(Tail(lines))

\* the accumulators when line k of `lines` onwards are "data:" lines judged
\* under the event name in force before each of them
RECURSIVE accumulateUnderEvents(_, _, _)
accumulateUnderEvents(lines, k, acc) ==
  IF k > Len(lines) THEN acc
  ELSE LET line == trim(lines[k])
           payloadText == trim(sliceFrom(line, 2))
           name == eventNameAfter(SubSeq(lines, 1, k - 1))
           text == jsonBody(payloadText)
       IN IF startsWith(line, <<"data:">>) /\ validJson(payloadText)
             /\ text # <<>> /\ text # <<"unauthorized">>
          THEN accumulateUnderEvents(lines, k + 1,
                 [allText |-> mergeStreamChunk(acc.allText, text),
                  assistantText |->
                    IF hasWord(name, AssistantLikeWords) /\ ~hasWord(name, RequestLikeWords)
                    THEN mergeStreamChunk(acc.assistantText, text)
                    ELSE acc.assistantText])
          ELSE accumulateUnderEvents(lines, k + 1, acc)

\* C34: while the stream is read and when it has ended, the event name is
\* the one set by the last "event:" line unless a blank line followed it;
\* every "data:" line (the unterminated last line included) has been judged
\* under the event name in force before it; and the "data: [DONE]" lines
\* have changed neither the accumulators nor the event name (the reader is
\* where it would be had they not been sent)
C34_EventNameScope ==
  sse.phase \in {"reading", "done"} =>
    LET lines == sseDoneLines
        seen == IF sse.phase = "done" THEN split(sse.body, LF) ELSE lines
        judged == accumulateUnderEvents(seen, 1, [allText |-> <<>>, assistantText |-> <<>>])
        skipped == sseLines(sse.transport, SseLocals(SseIdle), withoutDoneLines(lines))
    IN /\ sse.currentEventName = eventNameAfter(lines)
       /\ sse.allText = judged.allText
       /\ sse.assistantText = judged.assistantText
       /\ sse.phase = "reading" => SseLocals(sse) = skipped

\* an "event:" line, a "data: [DONE]" line and a "data:" line with text have
\* been read: the text was judged under the event name
C34_Witness ==
  /\ sse.phase = "reading"
  /\ sseDoneLines = << <<"event:", " ", "cmpl">>, <<"data:", " ", "[DONE]">>,
                       <<"data:", " ", "{", "a", "}">> >>
  /\ sse.currentEventName = <<"cmpl">>
  /\ sse.assistantText = <<"a">>

\* a "data:" line whose payload JSON.parse rejects
isMalformedLine(rawLine) ==
  LET payloadText == trim(sliceFrom(trim(rawLine), 2))
  IN /\ startsWith(trim(rawLine), <<"data:">>)
     /\ payloadText # <<>>
     /\ payloadText # <<"[DONE]">>
     /\ ~validJson(payloadText)

\* the lines without the malformed "data:" lines
RECURSIVE withoutMalformedLines(_)
withoutMalformedLines(lines) ==
  IF lines = <<>> THEN <<>>
  ELSE IF isMalformedLine(Head(lines)) THEN withoutMalformedLines(Tail(lines))
  ELSE <<Head(lines)>> \o withoutMalformedLines(Tail(lines))

\* the unterminated last line of the body
sseLastSegment ==
  LET segments == split(sse.body, LF) IN segments[Len(segments)]

\* C35: malformed "data:" lines are skipped: while the stream is read and
\* when it has ended the accumulators, the event name and the error are what
\* they would be had the malformed lines (a malformed unterminated last line
\* included) not been sent, whatever their number and place; a read never
\* fails on a malformed line
C35_MalformedLinesSkipped ==
  LET kept == sseLines(sse.transport, SseLocals(SseIdle),
                       withoutMalformedLines(sseDoneLines))
  IN /\ sse.phase = "reading" => SseLocals(sse) = kept
     /\ sse.phase = "done" =>
          SseLocals(sse) =
            sseTail(sse.transport, kept,
                    IF isMalformedLine(sseLastSegment) THEN <<>> ELSE sseLastSegment)
     /\ sse.phase = "failed" =>
          /\ sse.err = ensureAuthError(401)
          /\ kept.err = ensureAuthError(401)
               \/ (sse.pos = Len(sse.body) /\ ~isMalformedLine(sseLastSegment))

\* a malformed line, a line with text and a malformed last line without
\* newline were read: the stream ended with the text of the middle line
C35_Witness ==
  /\ sse.phase = "done"
  /\ sse.body = <<"data:", "{", "a", LF, "data:", "{", "b", "}", LF, "data:", "{", "a">>
  /\ sse.err = NoError
  /\ sse.allText = <<"b">>
  /\ sse.currentEventName = <<>>

\* what collectStreamContent returns or throws for the locals it ends with
\* (the prompt is empty; for the Kimi transport the summary is what the last
\* candidate path returns)
sseOutcome(transport, locals) ==
  LET primary == choosePrimary(locals.allText, locals.assistantText)
  IN IF locals.err # NoError THEN SendResult("throw", <<>>, locals.err)
     ELSE IF transport = "kimi"
     THEN kimiSendResult(FALSE, kimiSummaryOf(primary, <<>>), StreamEndpoints)
     ELSE qwenStreamResult(qwenSummaryOf(primary, <<>>))

\* the outcome when the whole body arrives in one read
sseOutcomeOfOneRead(transport, body) ==
  LET looped == sseRead(transport, [SseIdle EXCEPT !.body = body], body)
      locals == IF looped.err # NoError THEN SseLocals(looped)
                ELSE sseTail(transport, SseLocals(looped), looped.buffer)
  IN sseOutcome(transport, locals)

\* C38: the outcome of reading a body (the final text or the error) does not
\* depend on how the body was cut into reads: it is the outcome of reading
\* the same body in one piece
C38_OutcomeIndependentOfCuts ==
  sse.phase \in {"done", "failed"} =>
    /\ sseOutcome(sse.transport, SseLocals(sse))
         = sseOutcomeOfOneRead(sse.transport, sse.body)
    /\ sse.phase = "done" =>
         /\ sse.allText
              = sseTail(sse.transport,
                        SseLocals(sseRead(sse.transport, [SseIdle EXCEPT !.body = sse.body],
                                          sse.body)),
                        sseLastSegment).allText

\* a body whose last line has no newline was read to its end in pieces, one
\* of which ended inside a line, and text was reconstructed
C38_Witness ==
  /\ sse.phase = "done"
  /\ sse.splitLine
  /\ sse.body # <<>>
  /\ sse.body[Len(sse.body)] # LF
  /\ sse.assistantText # <<>>
  /\ sse.allText # sse.assistantText

(***************************************************************************)
(* Assistant classification of a stream chunk (kimi.ts).                   *)
(***************************************************************************)
\* the role extractStreamRole finds (lower case; "" when there is none) and
\* the event name extractStreamEvent finds, as its words
ChunkRoles == {"assistant", "model", "bot", "user", "system", "tool", ""}
ChunkEventWords == {"request", "user", "cmpl", "delta", "ping"}
ChunkEvents ==
  {<<>>} \cup {<<w>> : w \in ChunkEventWords}
    \cup {<<v, w>> : v \in ChunkEventWords, w \in ChunkEventWords}

ClassifyInit ==
  /\ InitStore
  /\ InitMergeIdle
  /\ InitReqIdle
  /\ InitTextIdle
  /\ summary_history = <<>>
  /\ stored_settings = Null
  /\ inflight = [p \in Panels |-> HandlerIdle]
  /\ sse = SseIdle
  /\ echo = EchoIdle
  /\ classified \in {[ChunkIdle EXCEPT !.piece = [text |-> <<"a">>, role |-> r, event |-> e]] :
                       r \in ChunkRoles, e \in ChunkEvents}

\* shouldUseAsAssistantChunk is applied to the chunk
Classify ==
  /\ ~classified.done
  /\ classified' = [classified EXCEPT !.assistant = shouldUseAsAssistantChunk(classified.piece),
                                      !.done = TRUE]
  /\ UNCHANGED <<storeVars, obsVars, mergeVars, reqVars, textVars, summary_history,
                 stored_settings, inflight, sse, echo>>

ClassifyNext == Classify

SpecClassify == ClassifyInit /\ [][ClassifyNext]_vars

\* C36: a chunk with role assistant, model or bot is classified as assistant
\* and one with role user or system is not, whatever its event name; with no
\* such role the event name decides: a request-like keyword excludes the
\* chunk even when a completion-like keyword is present too, a
\* completion-like keyword alone includes it; a chunk with neither role nor
\* event name is not classified as assistant
C36_AssistantClassification ==
  classified.done =>
    LET role == classified.piece.role
        event == classified.piece.event
    IN /\ role \in {"assistant", "model", "bot"} => classified.assistant
       /\ role \in {"user", "system"} => ~classified.assistant
       /\ role \notin {"assistant", "model", "bot", "user", "system"} =>
            /\ hasWord(event, RequestLikeWords) => ~classified.assistant
            /\ (hasWord(event, AssistantLikeWords) /\ ~hasWord(event, RequestLikeWords))
                 => classified.assistant
       /\ (role = "" /\ event = <<>>) => ~classified.assistant

\* a chunk without role whose event name holds a request-like and a
\* completion-like keyword was judged: it is not assistant
C36_Witness ==
  /\ classified.done
  /\ classified.piece.role = ""
  /\ classified.piece.event = <<"user", "delta">>
  /\ ~classified.assistant

(***************************************************************************)
(* Prompt-echo stripping applied to a stream output and a prompt.          *)
(***************************************************************************)
MaxEchoLen == 4

\* the characters of a stream output: text, and one of the known
\* instruction prefixes
EchoChars == {"a", "b", NoisyPrefixes[2][1]}

EchoPrompts == {<<>>, <<"a">>, <<"a", "b">>}

EchoInit ==
  /\ InitStore
  /\ InitMergeIdle
  /\ InitReqIdle
  /\ InitTextIdle
  /\ summary_history = <<>>
  /\ stored_settings = Null
  /\ inflight = [p \in Panels |-> HandlerIdle]
  /\ sse = SseIdle
  /\ classified = ChunkIdle
  /\ echo \in {[EchoIdle EXCEPT !.text = t, !.prompt = p] :
                 t \in StringsUpTo(EchoChars, MaxEchoLen), p \in EchoPrompts}

\* stripPromptEcho is applied
StripEcho ==
  /\ ~echo.done
  /\ echo' = [echo EXCEPT !.result = stripPromptEcho(echo.text, echo.prompt),
                          !.done = TRUE]
  /\ UNCHANGED <<storeVars, obsVars, mergeVars, reqVars, textVars, summary_history,
                 stored_settings, inflight, sse, classified>>

EchoNext == StripEcho

SpecEcho == EchoInit /\ [][EchoNext]_vars

\* what follows the last occurrence of `echoed` in `text`
afterLastOccurrence(text, echoed) ==
  trim(sliceFrom(text, lastIndexOf(text, echoed) + Len(echoed)))

\* the known instruction prefixes that occur in `text`
echoedPrefixes(text) ==
  {k \in 1..Len(NoisyPrefixes) : includes(text, NoisyPrefixes[k])}

\* C37: when the prompt or a known instruction prefix occurs in the stream
\* output, the result is what follows the last occurrence of the echoed
\* string: it does not contain the prompt and does not start with a known
\* instruction prefix
C37_EchoDiscarded ==
  echo.done =>
    LET output == trim(echo.text)
        cleanPrompt == trim(echo.prompt)
        promptEchoed == cleanPrompt # <<>> /\ includes(output, cleanPrompt)
    IN /\ promptEchoed => ~includes(echo.result, cleanPrompt)
       /\ \A k \in echoedPrefixes(output) : ~startsWith(echo.result, NoisyPrefixes[k])
       /\ (promptEchoed /\ echoedPrefixes(output) = {}) =>
            echo.result = afterLastOccurrence(output, cleanPrompt)
       /\ \A k \in echoedPrefixes(output) :
            ~promptEchoed => echo.result = afterLastOccurrence(output, NoisyPrefixes[k])

(***************************************************************************)
(* Growth of the accumulated text under the stream merge.                  *)
(***************************************************************************)
\* C39: after a mergeStreamChunk step the new accumulated text has the
\* previous accumulated text as a prefix, whatever the accumulated text and
\* the chunk are: nothing accumulated is altered or shortened
C39_AccumulatedTextIsPrefix ==
  mergeDone =>
    /\ startsWith(mergeResult, mergeCurrent)
    /\ Len(mergeResult) >= Len(mergeCurrent)

\* a chunk that overlaps the end of the accumulated text was merged and the
\* accumulated text grew
C39_Witness ==
  /\ mergeDone
  /\ mergeCurrent # <<>>
  /\ mergeNext # <<>>
  /\ ~startsWith(mergeNext, mergeCurrent)
  /\ findOverlapSuffixPrefix(mergeCurrent, mergeNext) > 0
  /\ Len(mergeResult) > Len(mergeCurrent)

====
